---------------------------- MODULE Spec2Model ----------------------------
(***************************************************************************)
(* Model of the RAG ingestion pipeline of src/app/db/vector_db.py:         *)
(* the chunker (chunk_text and its three strategies), the embedding cache  *)
(* (_get_from_cache, _save_to_cache, clean_embedding_cache) and the        *)
(* embedding client (get_embedding_for_chunk).                             *)
(*                                                                         *)
(* A text is a sequence of one-character strings.  Python string           *)
(* operations are modelled by operators with Python's 0-based, half-open   *)
(* indexing.                                                               *)
(***************************************************************************)
EXTENDS Integers, Sequences, FiniteSets, TLC

VARIABLES
    \* ---- chunker (chunk_text) ----
    text,        \* the text argument of chunk_text
    max_chars,   \* the max_chars argument
    overlap,     \* the overlap argument
    ck_pc,       \* "input" before the call, "returned" / "raised" after it
    ck_pre,      \* the chunk list of the outermost strategy before its overlap pass
    ck_out,      \* the list chunk_text returned
    \* ---- embedding cache and clock ----
    now,         \* datetime.now(), in days
    cache,       \* the files of cache_dir: cache key -> entry
    \* ---- embedding client (get_embedding_for_chunk) ----
    em_pc,       \* "idle", "attempt" (loop head), "join" (in join), "returned"
    em_text,     \* the text argument of the current call
    em_at,       \* the time of the current call
    em_attempt,  \* the loop variable attempt
    em_queue,    \* the Queue the name result_queue is bound to
    em_threads,  \* the api threads of this call that are still alive
    em_calls,    \* provider calls started by this call
    em_slept,    \* seconds slept between the last attempt and this one
    em_lookup,   \* the branch _get_from_cache took in this call
    em_got,      \* the (status, result) pair taken from the queue, <<>> if none
    em_save,     \* what _save_to_cache did in this call: "none", "ok", "fail"
    em_result,   \* the value the call returned
    em_hist,     \* per cache key, the last call that finished before this one
    em_n,        \* calls made so far
    em_ticks,    \* clock steps made so far
    \* ---- threads working on cache_dir at the same time ----
    cc_get,      \* per reader thread, its position in _get_from_cache
    cc_put,      \* the writer thread's position in _save_to_cache
    cc_sweep,    \* the sweeper thread's position in clean_embedding_cache
    cc_acked,    \* per cache key, the vector of the last write that returned True
    \* ---- get_embedding_for_large_text ----
    lt_pc,       \* "idle", "single", "loop", "returned", "raised"
    lt_chunks,   \* chunks, the list chunk_text returned
    lt_i,        \* the chunk the loop is at (from 1)
    lt_got,      \* emb of every chunk handled so far
    lt_embs,     \* embeddings, the list the loop appends to
    lt_ret,      \* the value returned
    \* ---- add_article_to_rag ----
    ar_db,       \* the row of the article in the articles table, and its shape
    ar_index,    \* the records of the Chroma collection
    ar_pc,       \* "idle", "sections", "standard", "standard_add", "done"
    ar_secs,     \* sections, the list _extract_major_sections returned
    ar_work,     \* per section, where its process_section task is
    ar_log,      \* what the call in progress (or the last one) did
    ar_ret,      \* the value the last call returned
    ar_hist,     \* per finished call, what it did and what the caller got
    \* ---- query, clean-up and deletion over the two stores ----
    st_db,       \* the ids of the articles table, most recently published first
    st_index,    \* the records of the Chroma collection
    st_last,     \* the last operation: its arguments, what it saw and returned
    st_n         \* operations made so far

ck_vars == <<text, max_chars, overlap, ck_pc, ck_pre, ck_out>>

em_vars == <<em_pc, em_text, em_at, em_attempt, em_queue, em_threads, em_calls,
             em_slept, em_lookup, em_got, em_save, em_result, em_hist, em_n,
             em_ticks>>

cc_vars == <<cc_get, cc_put, cc_sweep, cc_acked>>

lt_vars == <<lt_pc, lt_chunks, lt_i, lt_got, lt_embs, lt_ret>>

vars == <<text, max_chars, overlap, ck_pc, ck_pre, ck_out, now, cache,
          em_pc, em_text, em_at, em_attempt, em_queue, em_threads,
          em_calls, em_slept, em_lookup, em_got, em_save, em_result,
          em_hist, em_n, em_ticks, cc_get, cc_put, cc_sweep, cc_acked,
          lt_pc, lt_chunks, lt_i, lt_got, lt_embs, lt_ret,
          ar_db, ar_index, ar_pc, ar_secs, ar_work, ar_log, ar_ret, ar_hist,
          st_db, st_index, st_last, st_n>>

ar_vars == <<ar_db, ar_index, ar_pc, ar_secs, ar_work, ar_log, ar_ret, ar_hist>>

st_vars == <<st_db, st_index, st_last, st_n>>

\* what the steps of one part of the program leave alone
outside_chunker == <<now, cache, em_vars, cc_vars, lt_vars, ar_vars, st_vars>>
outside_embed == <<ck_vars, cc_vars, lt_vars, ar_vars, st_vars>>
outside_conc == <<ck_vars, em_vars, lt_vars, ar_vars, st_vars>>
outside_large == <<ck_vars, now, cache, em_vars, cc_vars, ar_vars, st_vars>>
outside_rag == <<ck_vars, now, cache, em_vars, cc_vars, lt_vars, st_vars>>
outside_store == <<ck_vars, now, cache, em_vars, cc_vars, lt_vars, ar_vars>>

----------------------------------------------------------------------------
(* Characters *)

NL == "\n"
SP == " "
\* the backtick; the TLA+ lexer takes no backtick inside a string, so the
\* apostrophe stands for it (no text of the model holds an apostrophe)
BT == "'"

\* regex \s restricted to the characters texts are built from
IsSpace(c) == c \in {SP, NL, "\t"}
\* regex \d
IsDigit(c) == c \in {"0", "1", "2", "3", "4", "5", "6", "7", "8", "9"}

\* F applied to the value of x: the loops below hand their accumulated state
\* on through it, so that every iteration starts from a computed value
Strict(x, F(_)) == CHOOSE r \in {F(v) : v \in {x}} : TRUE

Min(a, b) == IF a <= b THEN a ELSE b
Max(a, b) == IF a >= b THEN a ELSE b

----------------------------------------------------------------------------
(* Python string operations.  At(s, i) is s[i] for 0 <= i < len(s). *)

At(s, i) == s[i + 1]

\* s[i:j] for 0 <= i; j is clamped to len(s); empty when i >= j
Slice(s, i, j) ==
    LET jj == Min(j, Len(s))
    IN  IF i >= jj THEN <<>> ELSE SubSeq(s, i + 1, jj)

\* s[-n:] for n >= 1
Tail_n(s, n) == IF n >= Len(s) THEN s ELSE SubSeq(s, Len(s) - n + 1, Len(s))

\* number of leading / trailing whitespace characters
RECURSIVE LeadSpace(_, _)
LeadSpace(s, i) ==
    IF i < Len(s) /\ IsSpace(At(s, i)) THEN LeadSpace(s, i + 1) ELSE i

RECURSIVE TrailSpace(_, _)
TrailSpace(s, j) ==
    IF j > 0 /\ IsSpace(At(s, j - 1)) THEN TrailSpace(s, j - 1) ELSE j

\* str.strip()
Strip(s) ==
    LET i == LeadSpace(s, 0)
    IN  IF i = Len(s) THEN <<>> ELSE Slice(s, i, TrailSpace(s, Len(s)))

\* str.find("\n"): index of the first newline at or after i, -1 if none
RECURSIVE FindNL(_, _)
FindNL(s, i) ==
    IF i >= Len(s) THEN -1
    ELSE IF At(s, i) = NL THEN i ELSE FindNL(s, i + 1)

\* end of the line holding position i: the next newline, or len(s)
LineEnd(s, i) == LET k == FindNL(s, i) IN IF k = -1 THEN Len(s) ELSE k

\* regex (?m)^ : position i is at the start of a line
LineStart(s, i) == i = 0 \/ (i <= Len(s) /\ At(s, i - 1) = NL)

\* end (exclusive) of the maximal whitespace run starting at i
SpaceRunEnd(s, i) == LeadSpace(s, i)

\* a fence of three backticks at position i
Fence(s, i) ==
    i + 3 <= Len(s) /\ At(s, i) = BT /\ At(s, i + 1) = BT /\ At(s, i + 2) = BT

\* the chunk lists functions return: a raised exception leaves no list
Ok(cs) == [raised |-> FALSE, chunks |-> cs]
Raised == [raised |-> TRUE, chunks |-> <<>>]

\* list(range(0, stop, step)) of Python; step = 0 raises ValueError and is
\* guarded by the callers
RECURSIVE PyRange(_, _, _)
PyRange(i, stop, step) ==
    IF (step > 0 /\ i < stop) \/ (step < 0 /\ i > stop)
    THEN <<i>> \o PyRange(i + step, stop, step)
    ELSE <<>>

----------------------------------------------------------------------------
(* re.split(r'\n\s*\n', text): the paragraph split of _chunk_default *)

\* last newline in s[i:j), -1 if none
RECURSIVE LastNL(_, _, _)
LastNL(s, i, j) ==
    IF j <= i THEN -1
    ELSE IF At(s, j - 1) = NL THEN j - 1 ELSE LastNL(s, i, j - 1)

\* end (exclusive) of the match of \n\s*\n starting at i, -1 if none:
\* \s* is greedy, so the match ends at the last newline of the whitespace run
ParaSepEnd(s, i) ==
    IF i < Len(s) /\ At(s, i) = NL
    THEN LET k == LastNL(s, i + 1, SpaceRunEnd(s, i + 1))
         IN  IF k = -1 THEN -1 ELSE k + 1
    ELSE -1

\* pieces of s from position start (start of the current piece), scanning at i
RECURSIVE SplitParagraphsFrom(_, _, _)
SplitParagraphsFrom(s, start, i) ==
    IF i >= Len(s) THEN <<Slice(s, start, Len(s))>>
    ELSE LET e == ParaSepEnd(s, i)
         IN  IF e = -1 THEN SplitParagraphsFrom(s, start, i + 1)
             ELSE <<Slice(s, start, i)>> \o SplitParagraphsFrom(s, e, e)

SplitParagraphs(s) == SplitParagraphsFrom(s, 0, 0)

(* re.split(r'(?<=[.!?])\s+', paragraph): the sentence split *)

SentenceEnd(c) == c \in {".", "!", "?"}

RECURSIVE SplitSentencesFrom(_, _, _)
SplitSentencesFrom(s, start, i) ==
    IF i >= Len(s) THEN <<Slice(s, start, Len(s))>>
    ELSE IF i >= 1 /\ SentenceEnd(At(s, i - 1)) /\ IsSpace(At(s, i))
         THEN LET e == SpaceRunEnd(s, i)
              IN  <<Slice(s, start, i)>> \o SplitSentencesFrom(s, e, e)
         ELSE SplitSentencesFrom(s, start, i + 1)

SplitSentences(s) == SplitSentencesFrom(s, 0, 0)

----------------------------------------------------------------------------
(* The overlap pass that ends each of the three strategies *)

RECURSIVE OverlapFrom(_, _, _)
OverlapFrom(chunks, ov, i) ==
    IF i > Len(chunks) THEN <<>>
    ELSE LET prev_chunk == chunks[i - 1]
             current_chunk == chunks[i]
         IN  <<IF Len(prev_chunk) >= ov
               THEN Tail_n(prev_chunk, ov) \o current_chunk
               ELSE current_chunk>> \o OverlapFrom(chunks, ov, i + 1)

\* a slip of the overlap pass: prev_chunk[:overlap] for prev_chunk[-overlap:]
RECURSIVE OverlapHeadFrom(_, _, _)
OverlapHeadFrom(chunks, ov, i) ==
    IF i > Len(chunks) THEN <<>>
    ELSE <<IF Len(chunks[i - 1]) >= ov
           THEN Slice(chunks[i - 1], 0, ov) \o chunks[i]
           ELSE chunks[i]>> \o OverlapHeadFrom(chunks, ov, i + 1)

AddOverlapHead(chunks, ov) ==
    IF ov > 0 /\ Len(chunks) > 1
    THEN <<chunks[1]>> \o OverlapHeadFrom(chunks, ov, 2)
    ELSE chunks

AddOverlap(chunks, ov) ==
    IF ov > 0 /\ Len(chunks) > 1
    THEN <<chunks[1]>> \o OverlapFrom(chunks, ov, 2)
    ELSE chunks

----------------------------------------------------------------------------
(* _chunk_default *)

\* the hard split of a sentence longer than max_chars
RECURSIVE HardSplitAt(_, _, _)
HardSplitAt(sentence, starts, mx) ==
    IF starts = <<>> THEN <<>>
    ELSE LET i == Head(starts)
             end == Min(i + mx, Len(sentence))
         IN  <<Slice(sentence, i, end)>> \o HardSplitAt(sentence, Tail(starts), mx)

HardSplitSentence(sentence, mx, ov) ==
    IF mx - ov = 0 THEN Raised
    ELSE Ok(HardSplitAt(sentence, PyRange(0, Len(sentence) - ov, mx - ov), mx))

\* the loop over the sentences of one oversized paragraph; st is
\* [raised, chunks, sentence_chunk]
RECURSIVE SentenceLoop(_, _, _, _)
SentenceBody(sentences, st, mx, ov) ==
    IF sentences = <<>> \/ st.raised THEN st
    ELSE LET sentence == Head(sentences)
             rest == Tail(sentences)
         IN  IF Len(sentence) > mx
             THEN LET flushed == IF st.sentence_chunk # <<>>
                                 THEN Append(st.chunks, st.sentence_chunk)
                                 ELSE st.chunks
                  IN  Strict(HardSplitSentence(sentence, mx, ov),
                             LAMBDA parts :
                                 IF parts.raised
                                 THEN [st EXCEPT !.raised = TRUE]
                                 ELSE SentenceLoop(rest,
                                          [raised |-> FALSE,
                                           chunks |-> flushed \o parts.chunks,
                                           sentence_chunk |-> <<>>], mx, ov))
             ELSE IF Len(st.sentence_chunk) + Len(sentence) + 1 <= mx
             THEN SentenceLoop(rest,
                      [st EXCEPT !.sentence_chunk =
                          IF st.sentence_chunk # <<>>
                          THEN st.sentence_chunk \o <<SP>> \o sentence
                          ELSE sentence], mx, ov)
             ELSE SentenceLoop(rest,
                      [raised |-> FALSE,
                       chunks |-> Append(st.chunks, st.sentence_chunk),
                       sentence_chunk |-> sentence], mx, ov)

SentenceLoop(sentences, st, mx, ov) ==
    Strict(<<sentences, st>>, LAMBDA v : SentenceBody(v[1], v[2], mx, ov))

\* the loop over the paragraphs; st is [raised, chunks, current_chunk]
RECURSIVE ParagraphLoop(_, _, _, _)
ParagraphBody(paragraphs, st, mx, ov) ==
    IF paragraphs = <<>> \/ st.raised THEN st
    ELSE LET paragraph == Head(paragraphs)
             rest == Tail(paragraphs)
         IN  IF Len(paragraph) > mx
             THEN LET flushed == IF st.current_chunk # <<>>
                                 THEN Append(st.chunks, st.current_chunk)
                                 ELSE st.chunks
                  IN  Strict(SentenceLoop(SplitSentences(paragraph),
                                 [raised |-> FALSE, chunks |-> flushed,
                                  sentence_chunk |-> <<>>], mx, ov),
                             LAMBDA s1 :
                                 IF s1.raised
                                 THEN [st EXCEPT !.raised = TRUE]
                                 ELSE ParagraphLoop(rest,
                                          [raised |-> FALSE,
                                           chunks |-> IF s1.sentence_chunk # <<>>
                                                      THEN Append(s1.chunks, s1.sentence_chunk)
                                                      ELSE s1.chunks,
                                           current_chunk |-> <<>>], mx, ov))
             ELSE IF Len(st.current_chunk) + Len(paragraph) + 2 <= mx
             THEN ParagraphLoop(rest,
                      [st EXCEPT !.current_chunk =
                          IF st.current_chunk # <<>>
                          THEN st.current_chunk \o <<NL, NL>> \o paragraph
                          ELSE paragraph], mx, ov)
             ELSE ParagraphLoop(rest,
                      [raised |-> FALSE,
                       chunks |-> Append(st.chunks, st.current_chunk),
                       current_chunk |-> paragraph], mx, ov)

ParagraphLoop(paragraphs, st, mx, ov) ==
    Strict(<<paragraphs, st>>, LAMBDA v : ParagraphBody(v[1], v[2], mx, ov))

\* the chunk list of _chunk_default before its overlap pass (lines 191-245)
DefaultPre(t, mx, ov) ==
    Strict(ParagraphLoop(SplitParagraphs(t),
               [raised |-> FALSE, chunks |-> <<>>, current_chunk |-> <<>>],
               mx, ov),
           LAMBDA s : IF s.raised THEN Raised
                      ELSE Ok(IF s.current_chunk # <<>>
                              THEN Append(s.chunks, s.current_chunk)
                              ELSE s.chunks))

chunk_default(t, mx, ov) ==
    Strict(DefaultPre(t, mx, ov),
           LAMBDA pre : IF pre.raised THEN Raised ELSE Ok(AddOverlap(pre.chunks, ov)))

----------------------------------------------------------------------------
(* Structural markers of _chunk_markdown_aware *)

\* last position k in [lo, hi) holding a character other than a newline, -1 if none
RECURSIVE LastNonNL(_, _, _)
LastNonNL(s, lo, hi) ==
    IF hi <= lo THEN -1
    ELSE IF At(s, hi - 1) # NL THEN hi - 1 ELSE LastNonNL(s, lo, hi - 1)

\* end of the match of  \s+.+$  starting at e, -1 if none.  \s+ is greedy and
\* gives characters back until .+ finds a character that is no newline; .+
\* then runs to the end of that line
MarkerTailEnd(s, e) ==
    LET re == SpaceRunEnd(s, e)
    IN  IF re = e THEN -1
        ELSE IF re < Len(s) THEN LineEnd(s, re)
        ELSE LET k == LastNonNL(s, e + 1, Len(s))
             IN  IF k = -1 THEN -1 ELSE LineEnd(s, k)

\* number of consecutive '#' from position i
RECURSIVE HashRun(_, _)
HashRun(s, i) ==
    IF i < Len(s) /\ At(s, i) = "#" THEN 1 + HashRun(s, i + 1) ELSE 0

\* end (exclusive) of the maximal digit run starting at i
RECURSIVE DigitRunEnd(_, _)
DigitRunEnd(s, i) ==
    IF i < Len(s) /\ IsDigit(At(s, i)) THEN DigitRunEnd(s, i + 1) ELSE i

\* end of the match of (?m)^(#{1,6}\s+.+)$ starting at q, -1 if none
HeaderMatchEnd(s, q) ==
    LET h == HashRun(s, q)
    IN  IF LineStart(s, q) /\ h >= 1 /\ h <= 6 THEN MarkerTailEnd(s, q + h) ELSE -1

\* end of the bullet of (\s*[-*+]|\s*\d+\.) starting at q, -1 if none
BulletEnd(s, q) ==
    LET p == SpaceRunEnd(s, q)
        d == DigitRunEnd(s, p)
    IN  IF p < Len(s) /\ At(s, p) \in {"-", "*", "+"} THEN p + 1
        ELSE IF d > p /\ d < Len(s) /\ At(s, d) = "." THEN d + 1
        ELSE -1

\* end of the match of (?m)^(\s*[-*+]|\s*\d+\.)\s+.+$ starting at q, -1 if none
ListItemMatchEnd(s, q) ==
    LET b == BulletEnd(s, q)
    IN  IF LineStart(s, q) /\ b # -1 THEN MarkerTailEnd(s, b) ELSE -1

\* re.finditer: the spans of the non-overlapping matches, left to right
RECURSIVE HeaderPositions(_, _)
HeaderPositions(s, q) ==
    IF q >= Len(s) THEN <<>>
    ELSE LET e == HeaderMatchEnd(s, q)
         IN  IF e = -1 THEN HeaderPositions(s, q + 1)
             ELSE <<<<q, e>>>> \o HeaderPositions(s, e)

RECURSIVE ListItemPositions(_, _)
ListItemPositions(s, q) ==
    IF q >= Len(s) THEN <<>>
    ELSE LET e == ListItemMatchEnd(s, q)
         IN  IF e = -1 THEN ListItemPositions(s, q + 1)
             ELSE <<<<q, e>>>> \o ListItemPositions(s, e)

\* sorted(): tuples in lexicographic order
TupleLess(a, b) == a[1] < b[1] \/ (a[1] = b[1] /\ a[2] < b[2])

RECURSIVE InsertSorted(_, _)
InsertSorted(x, seq) ==
    IF seq = <<>> THEN <<x>>
    ELSE IF TupleLess(x, Head(seq)) THEN <<x>> \o seq
    ELSE <<Head(seq)>> \o InsertSorted(x, Tail(seq))

RECURSIVE Sorted(_)
Sorted(seq) == IF seq = <<>> THEN <<>> ELSE InsertSorted(Head(seq), Sorted(Tail(seq)))

StructureMarkers(s) == Sorted(HeaderPositions(s, 0) \o ListItemPositions(s, 0))

----------------------------------------------------------------------------
(* _chunk_markdown_aware *)

\* the loop over the markers; st is [raised, chunks, chunk_start, current_chunk]
RECURSIVE MarkerLoop(_, _, _, _, _, _)
MarkerBody(t, markers, i, st, mx, ov) ==
    IF i > Len(markers) \/ st.raised THEN st
    ELSE LET marker_start == markers[i][1]
             marker_end == markers[i][2]
             marker_text == Slice(t, marker_start, marker_end)
             next_section_start ==
                 IF i < Len(markers) THEN markers[i + 1][1] ELSE Len(t)
             section_content == Strip(Slice(t, marker_end, next_section_start))
             full_section == marker_text \o <<NL>> \o section_content
         IN  IF Len(st.current_chunk) + Len(full_section) > mx
             THEN LET flushed == IF st.current_chunk # <<>>
                                 THEN Append(st.chunks, st.current_chunk)
                                 ELSE st.chunks
                  IN  IF Len(full_section) > mx
                      THEN Strict(chunk_default(full_section, mx, ov),
                                  LAMBDA sub_chunks :
                                      IF sub_chunks.raised
                                      THEN [st EXCEPT !.raised = TRUE]
                                      ELSE MarkerLoop(t, markers, i + 1,
                                               [raised |-> FALSE,
                                                chunks |-> flushed \o sub_chunks.chunks,
                                                chunk_start |-> next_section_start,
                                                current_chunk |-> <<>>], mx, ov))
                      ELSE MarkerLoop(t, markers, i + 1,
                               [raised |-> FALSE,
                                chunks |-> flushed,
                                chunk_start |-> next_section_start,
                                current_chunk |-> full_section], mx, ov)
             ELSE MarkerLoop(t, markers, i + 1,
                      [raised |-> FALSE,
                       chunks |-> st.chunks,
                       chunk_start |-> next_section_start,
                       current_chunk |->
                           IF st.current_chunk # <<>>
                           THEN st.current_chunk \o <<NL, NL>> \o full_section
                           ELSE full_section], mx, ov)

MarkerLoop(t, markers, i, st, mx, ov) ==
    Strict(<<markers, i, st>>, LAMBDA v : MarkerBody(t, v[1], v[2], v[3], mx, ov))

\* lines 326-341: the final chunk and the text after the last marker
MarkdownFinal(t, st, mx, ov) ==
    LET chunks1 == IF st.current_chunk # <<>>
                   THEN Append(st.chunks, st.current_chunk)
                   ELSE st.chunks
        final_text == Strip(Slice(t, st.chunk_start, Len(t)))
        n == Len(chunks1)
    IN  IF st.chunk_start < Len(t) /\ final_text # <<>>
        THEN IF n > 0 /\ Len(chunks1[n]) + Len(final_text) + 2 <= mx
             THEN Ok([chunks1 EXCEPT ![n] = @ \o <<NL, NL>> \o final_text])
             ELSE IF Len(final_text) > mx
             THEN Strict(chunk_default(final_text, mx, ov),
                         LAMBDA final_chunks :
                             IF final_chunks.raised THEN Raised
                             ELSE Ok(chunks1 \o final_chunks.chunks))
             ELSE Ok(Append(chunks1, final_text))
        ELSE Ok(chunks1)

\* the chunk list of _chunk_markdown_aware before its overlap pass; the
\* fallback to _chunk_default of line 283 is taken by chunk_markdown_aware
MarkdownPre(t, mx, ov) ==
    Strict(MarkerLoop(t, StructureMarkers(t), 1,
               [raised |-> FALSE, chunks |-> <<>>, chunk_start |-> 0,
                current_chunk |-> <<>>], mx, ov),
           LAMBDA st : IF st.raised THEN Raised ELSE MarkdownFinal(t, st, mx, ov))

chunk_markdown_aware(t, mx, ov) ==
    IF StructureMarkers(t) = <<>> THEN chunk_default(t, mx, ov)
    ELSE Strict(MarkdownPre(t, mx, ov),
                LAMBDA pre : IF pre.raised THEN Raised ELSE Ok(AddOverlap(pre.chunks, ov)))

----------------------------------------------------------------------------
(* Code spans: re.finditer over the fenced and the inline pattern *)

\* first position j >= i where a fence starts, -1 if none
RECURSIVE FindFence(_, _)
FindFence(s, i) ==
    IF i + 3 > Len(s) THEN -1
    ELSE IF Fence(s, i) THEN i ELSE FindFence(s, i + 1)

\* first backtick at or after i, -1 if none
RECURSIVE FindBT(_, _)
FindBT(s, i) ==
    IF i >= Len(s) THEN -1
    ELSE IF At(s, i) = BT THEN i ELSE FindBT(s, i + 1)

\* end of the code span starting at i, -1 if none: a fence, at least one
\* character (as few as possible) and a fence; else a backtick, at least one
\* character that is no backtick, and a backtick
CodeMatchEnd(s, i) ==
    LET j == FindFence(s, i + 4)
        k == FindBT(s, i + 2)
    IN  IF Fence(s, i) /\ j # -1 THEN j + 3
        ELSE IF i + 1 < Len(s) /\ At(s, i) = BT /\ At(s, i + 1) # BT /\ k # -1
        THEN k + 1
        ELSE -1

RECURSIVE CodeBlocks(_, _)
CodeBlocks(s, i) ==
    IF i >= Len(s) THEN <<>>
    ELSE LET e == CodeMatchEnd(s, i)
         IN  IF e = -1 THEN CodeBlocks(s, i + 1)
             ELSE <<<<i, e>>>> \o CodeBlocks(s, e)

----------------------------------------------------------------------------
(* _chunk_code_aware *)

\* pieces code_block[i:i+max_chars] for i in range(0, len(code_block), max_chars)
RECURSIVE PlainPieces(_, _, _)
PlainPieces(block, starts, mx) ==
    IF starts = <<>> THEN <<>>
    ELSE <<Slice(block, Head(starts), Head(starts) + mx)>>
         \o PlainPieces(block, Tail(starts), mx)

\* pieces opening + code_content[i:chunk_end] + closing
RECURSIVE FencedPieces(_, _, _, _, _)
FencedPieces(code_content, starts, step, opening, closing) ==
    IF starts = <<>> THEN <<>>
    ELSE LET i == Head(starts)
             chunk_end == Min(i + step, Len(code_content))
         IN  <<opening \o Slice(code_content, i, chunk_end) \o closing>>
             \o FencedPieces(code_content, Tail(starts), step, opening, closing)

\* lines 428-453: the split of a code block longer than max_chars
SplitCodeBlock(code_block, mx) ==
    LET n == Len(code_block)
        first_line_end == FindNL(code_block, 0)
        opening == Slice(code_block, 0, first_line_end + 1)
        closing == <<NL, BT, BT, BT>>
        code_content == Strip(Slice(code_block, first_line_end + 1, n - 3))
        step == mx - Len(opening) - Len(closing)
    IN  IF Fence(code_block, 0) /\ Fence(code_block, n - 3)
        THEN IF first_line_end > 0
             THEN IF step = 0 THEN Raised
                  ELSE Ok(FencedPieces(code_content,
                              PyRange(0, Len(code_content), step),
                              step, opening, closing))
             ELSE Ok(PlainPieces(code_block, PyRange(0, n, mx), mx))
        ELSE Ok(PlainPieces(code_block, PyRange(0, n, mx), mx))

\* lines 416-457: the code block, once the pre-code text is in current_chunk
CodeBlockStep(st, chunks2, current2, code_block, mx) ==
    LET chunks3 == IF current2 # <<>> THEN Append(chunks2, current2) ELSE chunks2
    IN  IF Len(current2) + Len(code_block) + 2 <= mx
        THEN [st EXCEPT !.chunks = chunks2,
                        !.current_chunk = IF current2 # <<>>
                                          THEN current2 \o <<NL, NL>> \o code_block
                                          ELSE code_block]
        ELSE IF Len(code_block) > mx
        THEN Strict(SplitCodeBlock(code_block, mx),
                    LAMBDA split :
                        IF split.raised THEN [st EXCEPT !.raised = TRUE]
                        ELSE [st EXCEPT !.chunks = chunks3 \o split.chunks,
                                        !.current_chunk = <<>>])
        ELSE [st EXCEPT !.chunks = Append(chunks3, code_block),
                        !.current_chunk = <<>>]

\* lines 399-457: pre-code text and code block do not fit the current chunk
CodeNoFit(st, pre_code_text, code_block, mx, ov) ==
    LET chunks1 == IF st.current_chunk # <<>>
                   THEN Append(st.chunks, st.current_chunk)
                   ELSE st.chunks
    IN  IF pre_code_text = <<>>
        THEN CodeBlockStep(st, chunks1, <<>>, code_block, mx)
        ELSE IF Len(pre_code_text) > mx
        THEN Strict(chunk_default(pre_code_text, mx, ov),
                    LAMBDA pre_chunks :
                        \* pre_chunks[-1] of an empty list raises IndexError
                        IF pre_chunks.raised \/ pre_chunks.chunks = <<>>
                        THEN [st EXCEPT !.raised = TRUE]
                        ELSE CodeBlockStep(st,
                                 chunks1 \o SubSeq(pre_chunks.chunks, 1,
                                                   Len(pre_chunks.chunks) - 1),
                                 pre_chunks.chunks[Len(pre_chunks.chunks)],
                                 code_block, mx))
        ELSE CodeBlockStep(st, chunks1, pre_code_text, code_block, mx)

\* the loop over the code blocks; st is [raised, chunks, chunk_start, current_chunk]
RECURSIVE CodeLoop(_, _, _, _, _, _)
CodeBody(t, blocks, i, st, mx, ov) ==
    IF i > Len(blocks) \/ st.raised THEN st
    ELSE LET code_start == blocks[i][1]
             code_end == blocks[i][2]
             pre_code_text == Strip(Slice(t, st.chunk_start, code_start))
             code_block == Slice(t, code_start, code_end)
             st1 ==
                 IF Len(st.current_chunk) + Len(pre_code_text) + Len(code_block) + 4 <= mx
                 THEN [st EXCEPT !.current_chunk =
                          IF st.current_chunk # <<>>
                          THEN (IF pre_code_text # <<>>
                                THEN st.current_chunk \o <<NL, NL>> \o pre_code_text
                                ELSE st.current_chunk) \o <<NL, NL>> \o code_block
                          ELSE Strip(pre_code_text \o <<NL, NL>> \o code_block)]
                 ELSE CodeNoFit(st, pre_code_text, code_block, mx, ov)
         IN  CodeLoop(t, blocks, i + 1, [st1 EXCEPT !.chunk_start = code_end], mx, ov)

CodeLoop(t, blocks, i, st, mx, ov) ==
    Strict(<<blocks, i, st>>, LAMBDA v : CodeBody(t, v[1], v[2], v[3], mx, ov))

\* lines 461-484: the text after the last code block and the final chunk
CodeFinal(t, st, mx, ov) ==
    LET post_code_text == Strip(Slice(t, st.chunk_start, Len(t)))
        fits == st.current_chunk # <<>>
                /\ Len(st.current_chunk) + Len(post_code_text) + 2 <= mx
        chunks1 == IF st.current_chunk # <<>>
                   THEN Append(st.chunks, st.current_chunk)
                   ELSE st.chunks
    IN  IF st.chunk_start < Len(t) /\ post_code_text # <<>>
        THEN IF fits
             THEN Ok(Append(st.chunks, st.current_chunk \o <<NL, NL>> \o post_code_text))
             ELSE IF Len(post_code_text) > mx
             THEN Strict(chunk_default(post_code_text, mx, ov),
                         LAMBDA post_chunks :
                             IF post_chunks.raised THEN Raised
                             ELSE Ok(chunks1 \o post_chunks.chunks))
             ELSE Ok(Append(chunks1, post_code_text))
        ELSE Ok(chunks1)

\* the chunk list of _chunk_code_aware before its overlap pass
CodePre(t, mx, ov) ==
    Strict(CodeLoop(t, CodeBlocks(t, 0), 1,
               [raised |-> FALSE, chunks |-> <<>>, chunk_start |-> 0,
                current_chunk |-> <<>>], mx, ov),
           LAMBDA st : IF st.raised THEN Raised ELSE CodeFinal(t, st, mx, ov))

chunk_code_aware(t, mx, ov) ==
    IF CodeBlocks(t, 0) = <<>> THEN chunk_default(t, mx, ov)
    ELSE Strict(CodePre(t, mx, ov),
                LAMBDA pre : IF pre.raised THEN Raised ELSE Ok(AddOverlap(pre.chunks, ov)))

----------------------------------------------------------------------------
(* chunk_text: the three probes and the choice of strategy *)

Emph(c) == c \in {"*", "_"}

\* s[i:j) holds no newline
NoNLIn(s, i, j) == \A k \in i..(j - 1) : At(s, k) # NL

\* #{1,6}\s+  |  [*_]{1,2}[^*_]+[*_]{1,2}  |  \[.+?\]\(.+?\)
has_markdown(s) ==
    LET n == Len(s)
    IN  \/ \E i \in 0..(n - 2) : At(s, i) = "#" /\ IsSpace(At(s, i + 1))
        \/ \E i \in 0..(n - 3) :
              /\ Emph(At(s, i))
              /\ ~Emph(At(s, i + 1))
              /\ \E k \in (i + 2)..(n - 1) : Emph(At(s, k))
        \/ \E i \in 0..(n - 6) :
              /\ At(s, i) = "["
              /\ \E j \in (i + 2)..(n - 4) :
                    /\ At(s, j) = "]"
                    /\ At(s, j + 1) = "("
                    /\ NoNLIn(s, i + 1, j)
                    /\ \E k \in (j + 3)..(n - 1) :
                          At(s, k) = ")" /\ NoNLIn(s, j + 2, k)

has_code_blocks(s) == CodeBlocks(s, 0) # <<>>

\* (?m)^(\s*[-*+]|\s*\d+\.)\s+\S+ : a bullet at the start of a line, a
\* whitespace run and a character after the run
has_lists(s) ==
    \E q \in 0..(Len(s) - 1) :
        LET b == BulletEnd(s, q)
        IN  /\ LineStart(s, q)
            /\ b # -1
            /\ SpaceRunEnd(s, b) > b
            /\ SpaceRunEnd(s, b) < Len(s)

chunking_strategy(s) ==
    IF has_code_blocks(s) THEN "code_aware"
    ELSE IF has_markdown(s) /\ has_lists(s) THEN "markdown_aware"
    ELSE "default"

\* the chunk list of the strategy chunk_text selects, before that strategy's
\* own overlap pass (nested calls of _chunk_default have made theirs)
StrategyPre(t, mx, ov) ==
    LET strategy == chunking_strategy(t)
    IN  IF strategy = "code_aware" /\ CodeBlocks(t, 0) # <<>> THEN CodePre(t, mx, ov)
        ELSE IF strategy = "markdown_aware" /\ StructureMarkers(t) # <<>>
        THEN MarkdownPre(t, mx, ov)
        ELSE DefaultPre(t, mx, ov)

chunk_text(t, mx, ov) ==
    IF Len(t) <= mx THEN Ok(<<t>>)
    ELSE LET strategy == chunking_strategy(t)
         IN  IF strategy = "code_aware" THEN chunk_code_aware(t, mx, ov)
             ELSE IF strategy = "markdown_aware" THEN chunk_markdown_aware(t, mx, ov)
             ELSE chunk_default(t, mx, ov)

----------------------------------------------------------------------------
(* The embedding cache: the files of cache_dir.  An entry is a file named    *)
(* by its cache key; st is "ok" for a complete pickle, "partial" for a file  *)
(* that pickle.load cannot read, "absent" for no file.  Times are in days.   *)

VOYAGE_MODEL == "voyage-large-2"
\* self.cache_ttl = timedelta(days=30)
CACHE_TTL_DAYS == 30

\* Python values of the embedding client: None, the empty list, vectors
NONE == "None"
EMPTY == "[]"
Vectors == {"v1", "v2"}
\* bool(v) is False
Falsy(v) == v \in {NONE, EMPTY}

\* A text as the embedding client sees it: head is its first max_chars
\* characters ("" for the empty text), more tells whether it is longer.
EmptyText == [head |-> "", more |-> FALSE]
EmbedTexts == {EmptyText} \cup [head : {"p", "q"}, more : BOOLEAN]
\* a text with a lone surrogate: text.encode('utf-8') raises UnicodeEncodeError
Unencodable == [head |-> "surrogate", more |-> FALSE]
Encodable(t) == t # Unencodable
\* the texts the caller of the embedding client embeds
CallTexts == {t \in EmbedTexts : t.head # "q"} \cup {Unencodable}
\* text[:max_chars] when len(text) > max_chars
Truncate(t) == IF t.more THEN [t EXCEPT !.more = FALSE] ELSE t

\* a key made of the model alone, the same for every text
get_cache_key_model_only(t) == <<[head |-> "p", more |-> FALSE], VOYAGE_MODEL>>

\* md5 of f"{text}:{VOYAGE_MODEL}", taken as collision free
get_cache_key(t) == <<t, VOYAGE_MODEL>>
CacheKeys == {get_cache_key(Truncate(t)) : t \in EmbedTexts \ {EmptyText}}

Absent == [st |-> "absent", mtime |-> 0, val |-> NONE]
File(v, t) == [st |-> "ok", mtime |-> t, val |-> v]
Partial(t) == [st |-> "partial", mtime |-> t, val |-> NONE]
EmptyCache == [k \in CacheKeys |-> Absent]

\* now - modification_time > ttl
Expired(e, clock, ttl) == clock - e.mtime > ttl

\* pickle.load(f): the pickled dictionary, or an exception for a file that
\* is not a complete pickle
pickle_load(e) ==
    IF e.st = "ok" THEN [raised |-> FALSE, data |-> e.val]
    ELSE [raised |-> TRUE, data |-> NONE]

\* _get_from_cache with its except clause left out
get_from_cache_uncaught(c, t, clock) ==
    LET k == get_cache_key(t)
        e == c[k]
    IN  IF e.st = "absent"
        THEN [ret |-> NONE, cache |-> c, branch |-> "miss", raised |-> FALSE]
        ELSE IF Expired(e, clock, CACHE_TTL_DAYS)
        THEN [ret |-> NONE, cache |-> [c EXCEPT ![k] = Absent],
              branch |-> "expired", raised |-> FALSE]
        ELSE IF ~pickle_load(e).raised
        THEN [ret |-> pickle_load(e).data, cache |-> c, branch |-> "hit",
              raised |-> FALSE]
        ELSE [ret |-> NONE, cache |-> c, branch |-> "corrupt", raised |-> TRUE]

\* _get_from_cache run without interruption: the value returned, the files
\* afterwards, the branch taken, and whether an exception leaves the function
get_from_cache(c, t, clock) ==
    LET k == get_cache_key(t)
        e == c[k]
    IN  IF e.st = "absent"
        THEN [ret |-> NONE, cache |-> c, branch |-> "miss", raised |-> FALSE]
        ELSE IF Expired(e, clock, CACHE_TTL_DAYS)
        THEN [ret |-> NONE, cache |-> [c EXCEPT ![k] = Absent],
              branch |-> "expired", raised |-> FALSE]
        ELSE IF ~pickle_load(e).raised
        THEN [ret |-> pickle_load(e).data, cache |-> c, branch |-> "hit",
              raised |-> FALSE]
        \* except Exception: the corrupt file is removed, None is returned
        ELSE [ret |-> NONE, cache |-> [c EXCEPT ![k] = Absent],
              branch |-> "corrupt", raised |-> FALSE]

\* what the file system does to a write: "ok", "fail_open" (open raises,
\* nothing changes), "fail_dump" (the file is created or truncated and the
\* dump raises part way)
SaveOutcomes == {"ok", "fail_open", "fail_dump"}

\* _save_to_cache whose successful write leaves no file
save_to_cache_lost(c, t, v, clock, io) ==
    IF io = "ok" THEN [ret |-> TRUE, cache |-> c]
    ELSE IF io = "fail_dump"
    THEN [ret |-> FALSE,
          cache |-> [c EXCEPT ![get_cache_key(t)] = Partial(clock)]]
    ELSE [ret |-> FALSE, cache |-> c]

\* _save_to_cache run without interruption
save_to_cache(c, t, v, clock, io) ==
    IF io = "ok"
    THEN [ret |-> TRUE,
          cache |-> [c EXCEPT ![get_cache_key(t)] = File(v, clock)]]
    ELSE IF io = "fail_dump"
    THEN [ret |-> FALSE,
          cache |-> [c EXCEPT ![get_cache_key(t)] = Partial(clock)]]
    ELSE [ret |-> FALSE, cache |-> c]

----------------------------------------------------------------------------
(* The embedding client *)

\* max_retries = 3
max_retries == 3

\* what get_embedding can hand back: a vector, an empty list, None
Responses == Vectors \cup {EMPTY, NONE}
\* what api_call puts into result_queue
ApiItems == {<<"success", r>> : r \in Responses} \cup {<<"error", "e">>}

NoCall == [res |-> NONE, calls |-> 0, save |-> "none", at |-> 0, made |-> FALSE]

\* the cache and the embedding client at rest
EmbedIdle ==
    /\ now = 0
    /\ cache = EmptyCache
    /\ em_pc = "idle"
    /\ em_text = EmptyText
    /\ em_at = 0
    /\ em_attempt = 0
    /\ em_queue = <<>>
    /\ em_threads = {}
    /\ em_calls = 0
    /\ em_slept = 0
    /\ em_lookup = "none"
    /\ em_got = <<>>
    /\ em_save = "none"
    /\ em_result = NONE
    /\ em_hist = [k \in CacheKeys |-> NoCall]
    /\ em_n = 0
    /\ em_ticks = 0

\* the threads that work on cache_dir at the same time
Readers == {"g1", "g2"}

ReaderIdle == [pc |-> "idle", key |-> <<>>, branch |-> "none", ret |-> NONE,
               after |-> NONE]
WriterIdle == [pc |-> "idle", key |-> <<>>, val |-> NONE, attached |-> FALSE,
               ret |-> FALSE]
SweeperIdle == [pc |-> "idle", todo |-> <<>>, count |-> 0, ret |-> 0]

\* no thread has started
ConcIdle ==
    /\ cc_get = [g \in Readers |-> ReaderIdle]
    /\ cc_put = WriterIdle
    /\ cc_sweep = SweeperIdle
    /\ cc_acked = [k \in CacheKeys |-> NONE]

\* an embedding as get_embedding_for_large_text handles it: None, or a list
\* of numbers, each the quotient of an entry of num by den
NoValue == [kind |-> "none", num |-> <<>>, den |-> 1]
ListValue(nums, d) == [kind |-> "list", num |-> nums, den |-> d]

\* get_embedding_for_large_text has not been called
LargeIdle ==
    /\ lt_pc = "idle"
    /\ lt_chunks = <<>>
    /\ lt_i = 0
    /\ lt_got = <<>>
    /\ lt_embs = <<>>
    /\ lt_ret = NoValue

\* no article, no call of add_article_to_rag
NoLog ==
    [saved |-> FALSE, long |-> FALSE, retry |-> FALSE, std |-> FALSE,
     fault |-> FALSE, wrote |-> {}]
RagIdle ==
    /\ ar_db = [st |-> "absent", saved |-> FALSE, long |-> FALSE,
                size |-> "le6000", intro |-> FALSE, headers |-> <<>>, alt |-> 0]
    /\ ar_index = {}
    /\ ar_pc = "idle"
    /\ ar_secs = <<>>
    /\ ar_work = <<>>
    /\ ar_log = NoLog
    /\ ar_ret = FALSE
    /\ ar_hist = <<>>

\* what an operation over the two stores returned: a list of result
\* entries, None, an exception, a truth value or the report of a clean-up
Returned(kind, items, flag, deleted) ==
    [kind |-> kind, items |-> items, flag |-> flag, deleted |-> deleted]
NoOperation ==
    [op |-> "none", arg |-> "", k |-> 0, embed |-> "none", hits |-> <<>>,
     store |-> <<>>, before |-> {}, ret |-> Returned("none", <<>>, FALSE, 0)]

\* no article, no record, no operation over the two stores
StoreIdle ==
    /\ st_db = <<>>
    /\ st_index = {}
    /\ st_last = NoOperation
    /\ st_n = 0

----------------------------------------------------------------------------
(* The chunker as a state machine: one call of chunk_text on inputs drawn    *)
(* from bounded sets.                                                       *)

MaxLen == 5       \* longest text of the three character families
MaxChars == 4     \* largest max_chars tried with those texts
MaxOverlap == 4   \* largest overlap
MaxBody == 4      \* longest body between the two fences of a fenced text

PlainChars == {"a", ".", SP, NL}
CodeChars == {"a", BT, NL, "."}
MarkdownChars == {"#", "-", NL, "a"}

SeqsUpTo(S, n) == UNION {[1..k -> S] : k \in 0..n}

\* a fence, a short language line and body, and the closing fence
FENCE == <<BT, BT, BT>>
FencedTexts == {FENCE \o body \o FENCE : body \in SeqsUpTo({"a", NL}, MaxBody)}
\* the opening fence with its newline and the closing "\n" + fence are 8
\* characters: max_chars one below, at and one above that
FencedMaxChars == (2 * Len(FENCE) + 1)..(2 * Len(FENCE) + 3)

Texts == SeqsUpTo(PlainChars, MaxLen) \cup SeqsUpTo(CodeChars, MaxLen)
            \cup SeqsUpTo(MarkdownChars, MaxLen)

ChunkInputs ==
    (Texts \X (1..MaxChars) \X (0..MaxOverlap))
        \cup (FencedTexts \X FencedMaxChars \X (0..MaxOverlap))

InitChunk ==
    /\ \E in \in ChunkInputs :
          /\ text = in[1]
          /\ max_chars = in[2]
          /\ overlap = in[3]
    /\ ck_pc = "input"
    /\ ck_pre = <<>>
    /\ ck_out = <<>>
    /\ EmbedIdle
    /\ ConcIdle
    /\ LargeIdle
    /\ RagIdle
    /\ StoreIdle

\* chunk_text(text, max_chars, overlap): returns a list or raises
ChunkText ==
    /\ ck_pc = "input"
    /\ LET r == chunk_text(text, max_chars, overlap)
       IN  /\ ck_pc' = IF r.raised THEN "raised" ELSE "returned"
           /\ ck_out' = r.chunks
           /\ ck_pre' = IF r.raised THEN <<>>
                        ELSE IF Len(text) <= max_chars THEN <<text>>
                        ELSE StrategyPre(text, max_chars, overlap).chunks
    /\ UNCHANGED <<text, max_chars, overlap, outside_chunker>>

NextChunk == ChunkText

SpecChunk == InitChunk /\ [][NextChunk]_vars

IsPrefix(p, s) == Len(p) <= Len(s) /\ SubSeq(s, 1, Len(p)) = p

----------------------------------------------------------------------------
(* Claims about the chunker *)

\* C1: every chunk chunk_text returns, for max_chars >= 1 and
\* 0 <= overlap < max_chars, has at most max_chars characters.
ChunkSizeBound ==
    (ck_pc = "returned" /\ overlap < max_chars)
        => \A i \in 1..Len(ck_out) : Len(ck_out[i]) <= max_chars

\* C2 as stated: in a result of more than one chunk made with overlap v > 0,
\* every chunk after the first begins with the last v characters of the
\* pre-overlap text of the chunk before it, whatever that chunk's length.
OverlapAlways ==
    (ck_pc = "returned" /\ overlap > 0 /\ Len(ck_out) > 1)
        => \A i \in 2..Len(ck_out) :
              IsPrefix(Tail_n(ck_pre[i - 1], overlap), ck_out[i])

\* C2 as amended: the overlap pass keeps the number of chunks and the first
\* chunk; a chunk whose predecessor has at least v characters before the pass
\* is that predecessor's last v characters followed by its own pre-overlap
\* text; a chunk whose predecessor is shorter than v is returned unchanged.
OverlapWhenLongEnough ==
    (ck_pc = "returned" /\ overlap > 0 /\ Len(ck_out) > 1)
        => /\ Len(ck_pre) = Len(ck_out)
           /\ ck_out[1] = ck_pre[1]
           /\ \A i \in 2..Len(ck_out) :
                 IF Len(ck_pre[i - 1]) >= overlap
                 THEN ck_out[i] = Tail_n(ck_pre[i - 1], overlap) \o ck_pre[i]
                 ELSE ck_out[i] = ck_pre[i]

\* C2 witness: a multi-chunk result of the markdown strategy whose second
\* chunk carries the overlap of the first
OverlapWitness ==
    /\ ck_pc = "returned"
    /\ overlap > 1
    /\ Len(ck_out) > 2
    /\ chunking_strategy(text) = "markdown_aware"
    /\ \E i \in 2..Len(ck_out) :
          /\ Len(ck_pre[i - 1]) >= overlap
          /\ IsPrefix(Tail_n(ck_pre[i - 1], overlap), ck_out[i])

\* C3: chunk_text of the empty text returns the empty sequence.
EmptyTextNoChunks ==
    (ck_pc # "input" /\ text = <<>>) => (ck_pc = "returned" /\ ck_out = <<>>)

\* C4: chunk_text returns a sequence of chunks and never raises, for every
\* text, every max_chars >= 1 and every overlap >= 0.
ChunkTextNeverRaises == ck_pc # "raised"

\* the characters of s that are not whitespace, in order
RECURSIVE Solid(_)
Solid(s) ==
    IF s = <<>> THEN <<>>
    ELSE IF IsSpace(Head(s)) THEN Solid(Tail(s))
    ELSE <<Head(s)>> \o Solid(Tail(s))

\* c stands in t from offset a (from 0) on
StandsAt(t, c, a) == a + Len(c) <= Len(t) /\ SubSeq(t, a + 1, a + Len(c)) = c

\* the ends of the ways to lay the chunks from the i-th on over t one after
\* the other, S being the lengths of the prefixes of t that can be covered
\* so far: of each chunk a stretch stands in t (what is before it is the
\* overlap repeated from the chunk before or a fence put back, what is after
\* it a fence put back), it starts inside what is covered already, so that
\* no gap is left, and it ends no earlier
RECURSIVE Laid(_, _, _, _)
Laid(t, chunks, i, S) ==
    IF i > Len(chunks) THEN S
    ELSE Laid(t, chunks, i + 1,
              {e \in 0..Len(t) :
                  \E m \in 1..(Len(chunks[i]) + 1) : \E n \in (m - 1)..Len(chunks[i]) :
                      LET len == n - m + 1
                      IN  /\ e >= len
                          /\ StandsAt(t, SubSeq(chunks[i], m, n), e - len)
                          /\ \E p \in S : e - len <= p /\ p <= e})

\* the chunks, whitespace apart, cover t in the order of t
CoversInOrder(t, chunks) ==
    LET solid == [i \in 1..Len(chunks) |-> Solid(chunks[i])]
    IN  Len(Solid(t)) \in Laid(Solid(t), solid, 1, {0})

\* C28: chunk_text drops nothing of a text longer than max_chars: apart
\* from whitespace the returned chunks cover the text, in its order.
NoContentDropped ==
    (ck_pc = "returned" /\ Len(text) > max_chars)
        => CoversInOrder(text, ck_out)

\* C30: chunk_text returns no empty chunk for a text longer than max_chars.
NoEmptyChunk ==
    (ck_pc = "returned" /\ Len(text) > max_chars)
        => \A i \in 1..Len(ck_out) : ck_out[i] # <<>>

----------------------------------------------------------------------------
(* The embedding client as a state machine: calls of get_embedding_for_chunk *)
(* made one after another by one caller, the provider threads they start,    *)
(* and the clock.                                                            *)

MaxCalls == 3    \* calls of get_embedding_for_chunk in one behaviour
MaxTicks == 2    \* clock steps in one behaviour

\* the clock moves by one day or by the whole time to live
TickSteps == {1, CACHE_TTL_DAYS}

\* the text the call works on after the length check
Worked(t) == Truncate(t)
EmKey == get_cache_key(Worked(em_text))

\* the record of the call that has just finished
Finished ==
    [res |-> em_result, calls |-> em_calls, save |-> em_save, at |-> em_at,
     made |-> TRUE]

InitEmbed ==
    /\ text = <<>>
    /\ max_chars = 1
    /\ overlap = 0
    /\ ck_pc = "input"
    /\ ck_pre = <<>>
    /\ ck_out = <<>>
    /\ EmbedIdle
    /\ ConcIdle
    /\ LargeIdle
    /\ RagIdle
    /\ StoreIdle

\* the call returns v
Return(v) ==
    /\ em_pc' = "returned"
    /\ em_result' = v
    /\ em_queue' = <<>>
    /\ em_threads' = {}

\* the loop with one iteration more than max_retries
NextAttemptExtra(s) ==
    /\ em_attempt' = em_attempt + 1
    /\ em_slept' = s
    /\ IF em_attempt + 1 < max_retries + 1
       THEN /\ em_pc' = "attempt"
            /\ UNCHANGED <<em_result, em_queue, em_threads>>
       ELSE Return(NONE)

\* the for loop goes to its next iteration after sleeping s seconds, or ends
\* (the function then returns None)
NextAttempt(s) ==
    /\ em_attempt' = em_attempt + 1
    /\ em_slept' = s
    /\ IF em_attempt + 1 < max_retries
       THEN /\ em_pc' = "attempt"
            /\ UNCHANGED <<em_result, em_queue, em_threads>>
       ELSE Return(NONE)

\* the except branch of the loop body
ExceptBranch ==
    IF em_attempt < max_retries - 1
    THEN NextAttempt(2 ^ em_attempt)
    ELSE /\ Return(EMPTY)
         /\ UNCHANGED <<em_attempt, em_slept>>

\* time passes between two calls
Tick(d) ==
    /\ em_pc \in {"idle", "returned", "raised"}
    /\ em_ticks < MaxTicks
    /\ now' = now + d
    /\ em_ticks' = em_ticks + 1
    /\ UNCHANGED <<outside_embed, cache, em_pc, em_text, em_at, em_attempt, em_queue,
                   em_threads, em_calls, em_slept, em_lookup, em_got, em_save, em_result,
                   em_hist, em_n>>

\* get_embedding_for_chunk(t) up to the head of the retry loop: the empty
\* check, the truncation and the cache lookup
CallEmbed(t) ==
    /\ em_pc \in {"idle", "returned", "raised"}
    /\ em_n < MaxCalls
    /\ em_n' = em_n + 1
    /\ em_text' = t
    /\ em_at' = now
    /\ em_hist' = IF em_pc = "returned" /\ em_text # EmptyText
                  THEN [em_hist EXCEPT ![EmKey] = Finished]
                  ELSE em_hist
    /\ em_attempt' = 0
    /\ em_calls' = 0
    /\ em_slept' = 0
    /\ em_save' = "none"
    /\ em_queue' = <<>>
    /\ em_threads' = {}
    /\ em_got' = <<>>
    /\ IF t = EmptyText
       THEN /\ em_pc' = "returned"
            /\ em_result' = EMPTY
            /\ em_lookup' = "none"
            /\ cache' = cache
       ELSE IF ~Encodable(Worked(t))
       \* _get_cache_key raises before the try of _get_from_cache
       THEN /\ em_pc' = "raised"
            /\ em_result' = NONE
            /\ em_lookup' = "none"
            /\ cache' = cache
       ELSE LET r == get_from_cache(cache, Worked(t), now)
            IN  /\ cache' = r.cache
                /\ em_lookup' = r.branch
                /\ em_result' = r.ret
                /\ em_pc' = IF r.raised THEN "raised"
                            ELSE IF r.ret # NONE THEN "returned"
                            ELSE "attempt"
    /\ UNCHANGED <<outside_embed, now, em_ticks>>

\* one iteration up to the join: a fresh queue, the api thread started
StartAttempt ==
    /\ em_pc = "attempt"
    /\ em_queue' = <<>>
    /\ em_threads' = em_threads \cup {em_attempt}
    /\ em_calls' = em_calls + 1
    /\ em_pc' = "join"
    /\ UNCHANGED <<outside_embed, now, cache, em_text, em_at, em_attempt, em_slept,
                   em_lookup, em_got, em_save, em_result, em_hist, em_n, em_ticks>>

\* api thread i ends: its put goes to the queue result_queue names now
ApiReturn(i, item) ==
    /\ i \in em_threads
    /\ em_threads' = em_threads \ {i}
    /\ em_queue' = Append(em_queue, item)
    /\ UNCHANGED <<outside_embed, now, cache, em_pc, em_text, em_at, em_attempt,
                   em_calls, em_slept, em_lookup, em_got, em_save, em_result, em_hist,
                   em_n, em_ticks>>

\* api thread i ends without a put
ApiExit(i) ==
    /\ i \in em_threads
    /\ em_threads' = em_threads \ {i}
    /\ UNCHANGED <<outside_embed, now, cache, em_pc, em_text, em_at, em_attempt,
                   em_queue, em_calls, em_slept, em_lookup, em_got, em_save, em_result,
                   em_hist, em_n, em_ticks>>

\* join() without a timeout: it does not come back while the thread is alive
JoinWithoutTimeout ==
    /\ em_pc = "join"
    /\ em_attempt \in em_threads
    /\ FALSE
    /\ UNCHANGED vars

\* join comes back with the thread of this attempt still alive
JoinTimeout ==
    /\ em_pc = "join"
    /\ em_attempt \in em_threads
    /\ NextAttempt(0)
    /\ UNCHANGED <<outside_embed, now, cache, em_text, em_at, em_calls, em_lookup, em_got,
                   em_save, em_hist, em_n, em_ticks>>

\* join comes back with the thread of this attempt ended: the rest of the
\* loop body
JoinReturns ==
    /\ em_pc = "join"
    /\ em_attempt \notin em_threads
    /\ IF em_queue = <<>>
       THEN /\ NextAttempt(0)
            /\ UNCHANGED <<cache, em_save, em_got>>
       ELSE LET status == Head(em_queue)[1]
                result == Head(em_queue)[2]
            IN  /\ em_got' = Head(em_queue)
                \* len(None) raises TypeError inside the try
                /\ IF status = "success" /\ result # NONE
                   THEN \E io \in SaveOutcomes :
                         LET w == save_to_cache(cache, Worked(em_text), result,
                                                now, io)
                         IN  /\ cache' = w.cache
                             /\ em_save' = IF w.ret THEN "ok" ELSE "fail"
                             /\ Return(result)
                             /\ UNCHANGED <<em_attempt, em_slept>>
                   ELSE /\ ExceptBranch
                        /\ UNCHANGED <<cache, em_save>>
    /\ UNCHANGED <<outside_embed, now, em_text, em_at, em_calls, em_lookup, em_hist,
                   em_n, em_ticks>>

NextEmbed ==
    \/ \E d \in TickSteps : Tick(d)
    \/ \E t \in CallTexts : CallEmbed(t)
    \/ StartAttempt
    \/ \E i \in 0..(max_retries - 1) : \E item \in ApiItems : ApiReturn(i, item)
    \/ \E i \in 0..(max_retries - 1) : ApiExit(i)
    \/ JoinTimeout
    \/ JoinReturns

SpecEmbed == InitEmbed /\ [][NextEmbed]_vars

----------------------------------------------------------------------------
(* Claims about the embedding cache and the embedding client *)

\* a call on a non-empty text has got past its cache lookup
LookedUp == em_pc # "idle" /\ em_text # EmptyText /\ Encodable(em_text)

\* the iteration took a ("success", result) pair whose result is not None
GotSuccess == em_got # <<>> /\ em_got[1] = "success" /\ em_got[2] # NONE

\* the call that finished last before this one on the same cache key
Before == em_hist[EmKey]

\* C5: an entry written at time T is absent for every lookup at a time
\* t >= T + TTL, t = T + TTL included, and the lookup removes it: an entry
\* that is still in the store after the lookup of a call (and before the
\* write of that call) is younger than TTL.
ExpiredEntryAbsent ==
    (LookedUp /\ em_save = "none" /\ cache[EmKey].st # "absent")
        => em_at - cache[EmKey].mtime < CACHE_TTL_DAYS

IdempotentAsStated ==
    (LookedUp /\ em_pc = "returned" /\ Before.made
        /\ em_at - Before.at < CACHE_TTL_DAYS)
        => (em_result = Before.res /\ Before.calls + em_calls <= 1)

\* C9 as amended: when a call took its vector from the provider (in at most
\* max_retries provider calls) and its cache write succeeded, the next call
\* with the same text less than TTL later is a cache hit: it starts no
\* provider call and returns the same vector.
IdempotentAfterSave ==
    (LookedUp /\ Before.made /\ Before.save = "ok"
        /\ em_at - Before.at < CACHE_TTL_DAYS)
        => /\ em_pc = "returned"
           /\ em_lookup = "hit"
           /\ em_calls = 0
           /\ em_result = Before.res
           /\ Before.calls \in 1..max_retries

\* C9 witness: a hit, days after the call that wrote the entry, returning
\* that call's vector
SecondCallHit ==
    /\ LookedUp
    /\ Before.made
    /\ Before.save = "ok"
    /\ Before.res \in Vectors
    /\ em_at > Before.at
    /\ em_lookup = "hit"
    /\ em_result = Before.res

\* what C10 and its amendment share: at most max_retries provider calls, none
\* on a hit, one attempt at a time, and the call returns the result of the
\* first success it takes from the queue
AttemptDiscipline ==
    /\ em_calls <= 3
    /\ em_lookup = "hit" => em_calls = 0
    /\ em_pc = "attempt" => em_calls = em_attempt
    /\ em_pc = "join" => em_calls = em_attempt + 1
    /\ GotSuccess => (em_pc = "returned" /\ em_result = em_got[2])

\* C10 as stated: at most 3 provider calls, none on a hit, attempts one
\* after another, the call stops at the first successful attempt, whose
\* vector is then the entry of the cache and the value returned.
AtMostThreeAsStated ==
    /\ AttemptDiscipline
    /\ GotSuccess => cache[EmKey] = File(em_result, em_at)

\* C10 as amended: the same, the vector being the entry of the cache when
\* the cache write the call makes succeeds.
AtMostThreeCalls ==
    /\ AttemptDiscipline
    /\ GotSuccess
          => /\ em_save # "none"
             /\ em_save = "ok" => cache[EmKey] = File(em_result, em_at)

\* C10 witness: two failed attempts, a success on the third, stored and
\* returned
ThirdAttemptSucceeds ==
    /\ em_pc = "returned"
    /\ em_calls = 3
    /\ GotSuccess
    /\ em_result \in Vectors
    /\ em_save = "ok"
    /\ cache[EmKey] = File(em_result, em_at)

\* every attempt of the call has ended without a result the call could
\* return: the loop ran out, or the last attempt ended in the except clause
Exhausted ==
    /\ em_pc = "returned"
    /\ em_calls = max_retries
    /\ ~GotSuccess

\* C11: get_embedding_for_chunk never raises to its caller; when all 3
\* attempts are unsuccessful, in any mix of errors, timeouts and attempts
\* without a result, it returns a falsy value and has written nothing to the
\* cache.
EmbedNeverRaises ==
    /\ em_pc # "raised"
    /\ Exhausted => (Falsy(em_result) /\ em_save = "none"
                        /\ cache[EmKey] = Absent)

\* api_thread.join(timeout=40) comes back, the thread ended or not
Join == JoinTimeout \/ JoinReturns

\* The caller's own steps always go on: the thread start returns, and join
\* returns after 40 seconds at the latest.  Nothing is assumed of the
\* provider: an api thread may never end.
SpecEmbedFair == SpecEmbed /\ WF_vars(StartAttempt) /\ WF_vars(Join)

\* C12: every call of get_embedding_for_chunk that has gone into the retry
\* loop eventually returns, also when its provider calls hang for ever: a
\* call that is still running when join comes back is abandoned and the
\* loop goes on as after a failed attempt.
CallEventuallyReturns ==
    (em_pc \in {"attempt", "join"}) ~> (em_pc = "returned")

\* C12 witness: a call that returned after its three provider calls all hung
AllAttemptsHung ==
    /\ em_pc = "returned"
    /\ em_calls = max_retries
    /\ em_got = <<>>
    /\ em_result = NONE

\* C26: an attempt that is followed by another one, whether it ended in an
\* error or timed out, is followed by a wait of 2^attempt seconds (1 s after
\* the first attempt, 2 s after the second) before the next one starts.
BackoffBeforeEveryRetry ==
    (em_pc \in {"attempt", "join"} /\ em_attempt >= 1)
        => em_slept = 2 ^ (em_attempt - 1)

\* C27: a response without a vector or with an empty one counts as a failed
\* attempt: it is retried, it is not written to the cache and it is not
\* handed to the caller as the embedding of a successful attempt.
MalformedIsFailure ==
    /\ \A k \in CacheKeys : cache[k].st = "ok" => cache[k].val \in Vectors
    /\ (em_got # <<>> /\ em_got[1] = "success" /\ Falsy(em_got[2])) =>
          /\ em_save = "none"
          /\ em_pc = "returned" => em_calls = max_retries

\* the same for a response that is None
MissingVectorIsFailure ==
    (em_got = <<"success", NONE>>) =>
        /\ em_save = "none"
        /\ cache[EmKey] = Absent
        /\ em_pc = "returned" => (em_calls = max_retries /\ Falsy(em_result))

----------------------------------------------------------------------------
(* The embedding client with a provider that answers every call, the same
   vector for the same text, and a cache that loses entries at any time *)

\* get_embedding(text, model=VOYAGE_MODEL, ...) of such a provider
Provider(t) == IF t.head = "p" THEN "v1" ELSE "v2"

\* the api thread of the running attempt puts the provider's answer
ApiAnswers ==
    /\ em_pc = "join"
    /\ ApiReturn(em_attempt, <<"success", Provider(Worked(em_text))>>)

\* between two calls any files of cache_dir go away: os.remove by
\* clean_embedding_cache, or by anything else
Prune(S) ==
    /\ em_pc \in {"idle", "returned", "raised"}
    /\ \E k \in S : cache[k] # Absent
    /\ cache' = [k \in CacheKeys |-> IF k \in S THEN Absent ELSE cache[k]]
    /\ UNCHANGED <<outside_embed, now, em_pc, em_text, em_at, em_attempt,
                   em_queue, em_threads, em_calls, em_slept, em_lookup, em_got,
                   em_save, em_result, em_hist, em_n, em_ticks>>

NextPrune ==
    \/ \E d \in TickSteps : Tick(d)
    \/ \E t \in EmbedTexts \cup {Unencodable} : CallEmbed(t)
    \/ StartAttempt
    \/ ApiAnswers
    \/ JoinReturns
    \/ \E S \in SUBSET CacheKeys : Prune(S)

SpecPrune == InitEmbed /\ [][NextPrune]_vars

\* C24: the cache changes no result: whatever entries were removed and
\* whenever, a call returns the provider's vector of its text, so two runs
\* that differ in the contents of the cache return the same vectors.
CacheOnlyPerformance ==
    /\ (em_pc = "returned" /\ em_text # EmptyText)
          => em_result = Provider(Worked(em_text))
    /\ (em_pc = "returned" /\ em_text = EmptyText) => em_result = EMPTY
    /\ \A t \in EmbedTexts \ {EmptyText} :
          em_hist[get_cache_key(Worked(t))].made
              => em_hist[get_cache_key(Worked(t))].res = Provider(Worked(t))

\* a text embedded and cached, its entry removed before its time, and the
\* next call for it served by the provider again
RefetchedAfterPrune ==
    /\ em_pc = "returned"
    /\ em_text # EmptyText
    /\ em_hist[EmKey].made
    /\ em_hist[EmKey].save = "ok"
    /\ em_at - em_hist[EmKey].at <= CACHE_TTL_DAYS
    /\ em_lookup = "miss"
    /\ em_calls = 1

----------------------------------------------------------------------------
(* Threads on cache_dir at the same time: readers in _get_from_cache, a      *)
(* writer in _save_to_cache and a sweeper in clean_embedding_cache, each      *)
(* step one call into the file system.  The clock stands still.              *)

\* the age the sweep is called with: clean_embedding_cache(max_age_days=30)
max_age_days == 30

\* an entry written a day longer ago than the time to live, and one written now
OldFile == File("v1", 0)
NewFile == File("v1", CACHE_TTL_DAYS + 1)

InitConc ==
    /\ text = <<>>
    /\ max_chars = 1
    /\ overlap = 0
    /\ ck_pc = "input"
    /\ ck_pre = <<>>
    /\ ck_out = <<>>
    /\ now = CACHE_TTL_DAYS + 1
    /\ cache \in [CacheKeys -> {Absent, OldFile, NewFile}]
    /\ em_pc = "idle"
    /\ em_text = EmptyText
    /\ em_at = 0
    /\ em_attempt = 0
    /\ em_queue = <<>>
    /\ em_threads = {}
    /\ em_calls = 0
    /\ em_slept = 0
    /\ em_lookup = "none"
    /\ em_got = <<>>
    /\ em_save = "none"
    /\ em_result = NONE
    /\ em_hist = [k \in CacheKeys |-> NoCall]
    /\ em_n = 0
    /\ em_ticks = 0
    /\ ConcIdle
    /\ LargeIdle
    /\ RagIdle
    /\ StoreIdle

ConcFrame == UNCHANGED <<outside_conc, now>>

\* os.remove(k) that finds the file: the name is gone, and a writer that has
\* the file open keeps writing to a file without a name
Unlink(k) ==
    /\ cache' = [cache EXCEPT ![k] = Absent]
    /\ cc_put' = IF cc_put.pc = "opened" /\ cc_put.key = k
                 THEN [cc_put EXCEPT !.attached = FALSE]
                 ELSE cc_put

\* the reader ends with return value v after taking branch b
ReaderDone(g, b, v) ==
    cc_get' = [cc_get EXCEPT ![g] = [@ EXCEPT !.pc = "done", !.branch = b,
                                               !.ret = v]]

ReaderTo(g, pc) == cc_get' = [cc_get EXCEPT ![g].pc = pc]

\* _get_from_cache(text): os.path.exists(cache_file)
GetExists(g, k) ==
    /\ cc_get[g].pc = "idle"
    /\ IF cache[k].st = "absent"
       THEN cc_get' = [cc_get EXCEPT ![g] =
                          [pc |-> "done", key |-> k, branch |-> "miss",
                           ret |-> NONE, after |-> cc_acked[k]]]
       ELSE cc_get' = [cc_get EXCEPT ![g] =
                          [pc |-> "stat", key |-> k, branch |-> "none",
                           ret |-> NONE, after |-> cc_acked[k]]]
    /\ UNCHANGED <<cache, cc_put, cc_sweep, cc_acked>>
    /\ ConcFrame

\* os.path.getmtime(cache_file) and the comparison with cache_ttl
GetStat(g) ==
    /\ cc_get[g].pc = "stat"
    /\ LET e == cache[cc_get[g].key]
       IN  IF e.st = "absent" THEN ReaderTo(g, "except")
           ELSE IF Expired(e, now, CACHE_TTL_DAYS) THEN ReaderTo(g, "remove")
           ELSE ReaderTo(g, "load")
    /\ UNCHANGED <<cache, cc_put, cc_sweep, cc_acked>>
    /\ ConcFrame

\* os.remove(cache_file) of the expired entry
GetRemoveExpired(g) ==
    /\ cc_get[g].pc = "remove"
    /\ IF cache[cc_get[g].key].st = "absent"
       THEN /\ ReaderTo(g, "except")
            /\ UNCHANGED <<cache, cc_put>>
       ELSE /\ ReaderDone(g, "expired", NONE)
            /\ Unlink(cc_get[g].key)
    /\ UNCHANGED <<cc_sweep, cc_acked>>
    /\ ConcFrame

\* open(cache_file, 'rb') and pickle.load(f)
GetLoad(g) ==
    /\ cc_get[g].pc = "load"
    /\ LET e == cache[cc_get[g].key]
       IN  IF e.st = "absent" THEN ReaderTo(g, "except")
           ELSE IF pickle_load(e).raised
           THEN cc_get' = [cc_get EXCEPT ![g] = [@ EXCEPT !.pc = "except",
                                                          !.branch = "corrupt"]]
           ELSE ReaderDone(g, "hit", pickle_load(e).data)
    /\ UNCHANGED <<cache, cc_put, cc_sweep, cc_acked>>
    /\ ConcFrame

\* the except clause: os.remove(cache_file), errors passed over
GetExcept(g) ==
    /\ cc_get[g].pc = "except"
    /\ ReaderDone(g, cc_get[g].branch, NONE)
    /\ IF cache[cc_get[g].key].st = "absent"
       THEN UNCHANGED <<cache, cc_put>>
       ELSE Unlink(cc_get[g].key)
    /\ UNCHANGED <<cc_sweep, cc_acked>>
    /\ ConcFrame

\* _save_to_cache(text, v): open(cache_file, 'wb') makes or empties the file
PutOpen(k, v) ==
    /\ cc_put.pc = "idle"
    /\ cc_put' = [pc |-> "opened", key |-> k, val |-> v, attached |-> TRUE,
                  ret |-> FALSE]
    /\ cache' = [cache EXCEPT ![k] = Partial(now)]
    /\ UNCHANGED <<cc_get, cc_sweep, cc_acked>>
    /\ ConcFrame

\* pickle.dump(cache_data, f), the file closed, return True
PutDump ==
    /\ cc_put.pc = "opened"
    /\ cc_put' = [cc_put EXCEPT !.pc = "done", !.ret = TRUE]
    /\ cache' = IF cc_put.attached
                THEN [cache EXCEPT ![cc_put.key] = File(cc_put.val, now)]
                ELSE cache
    /\ cc_acked' = [cc_acked EXCEPT ![cc_put.key] = cc_put.val]
    /\ UNCHANGED <<cc_get, cc_sweep>>
    /\ ConcFrame

\* the orders os.listdir can give the files in
Listings ==
    LET present == {k \in CacheKeys : cache[k].st # "absent"}
    IN  {l \in UNION {[1..n -> present] : n \in 0..Cardinality(present)} :
            /\ Len(l) = Cardinality(present)
            /\ \A i, j \in 1..Len(l) : i # j => l[i] # l[j]}

\* the for loop of the sweep goes on with the files left, or ends and
\* returns cleaned_count
SweepOn(rest, n) ==
    cc_sweep' = IF rest = <<>>
                THEN [pc |-> "done", todo |-> <<>>, count |-> n, ret |-> n]
                ELSE [pc |-> "stat", todo |-> rest, count |-> n, ret |-> 0]

\* the except clause of the sweep: return 0
SweepAbort == cc_sweep' = [cc_sweep EXCEPT !.pc = "done", !.ret = 0]

\* clean_embedding_cache(max_age_days): os.listdir(self.cache_dir)
SweepList ==
    /\ cc_sweep.pc = "idle"
    /\ \E l \in Listings : SweepOn(l, 0)
    /\ UNCHANGED <<cache, cc_get, cc_put, cc_acked>>
    /\ ConcFrame

\* os.path.getmtime(file_path) and the comparison with max_age
SweepStat ==
    /\ cc_sweep.pc = "stat"
    /\ LET e == cache[Head(cc_sweep.todo)]
       IN  IF e.st = "absent" THEN SweepAbort
           ELSE IF Expired(e, now, max_age_days)
           THEN cc_sweep' = [cc_sweep EXCEPT !.pc = "remove"]
           ELSE SweepOn(Tail(cc_sweep.todo), cc_sweep.count)
    /\ UNCHANGED <<cache, cc_get, cc_put, cc_acked>>
    /\ ConcFrame

\* os.remove(file_path) and cleaned_count += 1
SweepRemove ==
    /\ cc_sweep.pc = "remove"
    /\ IF cache[Head(cc_sweep.todo)].st = "absent"
       THEN /\ SweepAbort
            /\ UNCHANGED <<cache, cc_put>>
       ELSE /\ SweepOn(Tail(cc_sweep.todo), cc_sweep.count + 1)
            /\ Unlink(Head(cc_sweep.todo))
    /\ UNCHANGED <<cc_get, cc_acked>>
    /\ ConcFrame

NextConc ==
    \/ \E g \in Readers : \E k \in CacheKeys : GetExists(g, k)
    \/ \E g \in Readers : GetStat(g)
    \/ \E g \in Readers : GetRemoveExpired(g)
    \/ \E g \in Readers : GetLoad(g)
    \/ \E g \in Readers : GetExcept(g)
    \/ \E k \in CacheKeys : \E v \in Vectors : PutOpen(k, v)
    \/ PutDump
    \/ SweepList
    \/ SweepStat
    \/ SweepRemove

SpecConc == InitConc /\ [][NextConc]_vars

----------------------------------------------------------------------------
(* Claims about threads on cache_dir at the same time *)

\* C7: the sweep removes every entry older than max_age and returns the
\* number of entries it removed, whatever the readers and the writer do
\* meanwhile.
SweepRemovesAndCounts ==
    cc_sweep.pc = "done"
        => /\ cc_sweep.ret = cc_sweep.count
           /\ \A k \in CacheKeys :
                 cache[k].st = "absent" \/ ~Expired(cache[k], now, max_age_days)

\* C8: a reader started after a write of its key returned True returns the
\* vector of that write, and no reader comes upon a half-written entry.
WriteVisibleAndAtomic ==
    \A g \in Readers :
        /\ cc_get[g].branch # "corrupt"
        /\ (cc_get[g].pc = "done" /\ cc_get[g].after # NONE)
              => cc_get[g].ret = cc_get[g].after

----------------------------------------------------------------------------
(* get_embedding_for_large_text: chunk the text, embed every chunk, average *)

MaxLarge == 4        \* longest text handed to get_embedding_for_large_text

\* a lone surrogate, a character str.encode() refuses
SURROGATE == "U+D800"
LargeChars == {"a", ".", SURROGATE}

\* chunk_text(text) runs with its defaults, max_chars = min(model max, 3000)
\* and overlap = 200: here a small max_chars and a smaller overlap
LargeInputs == SeqsUpTo(LargeChars, MaxLarge) \X (2..3) \X (0..1)

\* the numbers of a vector of the provider
Dim == 2
Coords(v) == IF v = "v1" THEN <<1, 0>> ELSE <<0, 2>>

EmptyList == ListValue(<<>>, 1)
Truthy(val) == val.kind = "list" /\ val.num # <<>>

\* hashlib.md5(chunk.encode('utf-8')) in _get_cache_key accepts the chunk
ChunkEncodable(c) == \A k \in 1..Len(c) : c[k] # SURROGATE

\* what get_embedding_for_chunk(c) hands back: [] for an empty chunk, an
\* exception for a chunk that cannot be encoded, and otherwise any of the
\* results a call reaches (a vector, an empty list from the cache or the
\* provider, None after max_retries failed attempts)
ChunkOutcomes(c) ==
    IF c = <<>> THEN {EMPTY}
    ELSE IF ~ChunkEncodable(c) THEN {"raise"}
    ELSE Vectors \cup {EMPTY, NONE}

ValueOf(o) ==
    IF o = NONE THEN NoValue
    ELSE IF o = EMPTY THEN EmptyList
    ELSE ListValue(Coords(o), 1)

RECURSIVE ColumnSum(_, _)
ColumnSum(embs, k) ==
    IF embs = <<>> THEN 0 ELSE Head(embs).num[k] + ColumnSum(Tail(embs), k)

\* np.mean(embeddings, axis=0).tolist(), as exact quotients
Mean(embs) == ListValue([k \in 1..Dim |-> ColumnSum(embs, k)], Len(embs))

InitLarge ==
    /\ \E in \in LargeInputs :
          /\ text = in[1]
          /\ max_chars = in[2]
          /\ overlap = in[3]
    /\ ck_pc = "input"
    /\ ck_pre = <<>>
    /\ ck_out = <<>>
    /\ now = 0
    /\ cache = EmptyCache
    /\ EmbedIdle
    /\ ConcIdle
    /\ LargeIdle
    /\ RagIdle
    /\ StoreIdle

LargeReturn(val) ==
    /\ lt_pc' = "returned"
    /\ lt_ret' = val

\* lines 516-529: the empty text, the chunking, the count of chunks
CallLarge ==
    /\ lt_pc = "idle"
    /\ IF text = <<>>
       THEN LargeReturn(EmptyList) /\ UNCHANGED lt_chunks
       ELSE LET r == chunk_text(text, max_chars, overlap)
            IN  IF r.raised
                THEN lt_pc' = "raised" /\ UNCHANGED <<lt_chunks, lt_ret>>
                ELSE /\ lt_chunks' = r.chunks
                     /\ IF r.chunks = <<>> THEN LargeReturn(EmptyList)
                        ELSE /\ lt_pc' = IF Len(r.chunks) = 1 THEN "single"
                                         ELSE "loop"
                             /\ UNCHANGED lt_ret
    /\ lt_i' = 1
    /\ UNCHANGED <<lt_got, lt_embs, text, max_chars, overlap, outside_large>>

\* line 529: one chunk, its embedding is the result as it comes
EmbedSingle(o) ==
    /\ lt_pc = "single"
    /\ o \in ChunkOutcomes(lt_chunks[1])
    /\ IF o = "raise"
       THEN lt_pc' = "raised" /\ UNCHANGED <<lt_got, lt_ret>>
       ELSE /\ LargeReturn(ValueOf(o))
            /\ lt_got' = <<ValueOf(o)>>
    /\ UNCHANGED <<lt_chunks, lt_i, lt_embs, text, max_chars, overlap,
                   outside_large>>

\* lines 537-551: one turn of the loop over the chunks
EmbedChunkStep(o) ==
    /\ lt_pc = "loop"
    /\ lt_i <= Len(lt_chunks)
    /\ o \in ChunkOutcomes(lt_chunks[lt_i])
    /\ IF o = "raise"
       THEN lt_pc' = "raised" /\ UNCHANGED <<lt_i, lt_got, lt_embs>>
       ELSE /\ lt_got' = Append(lt_got, ValueOf(o))
            /\ lt_embs' = IF Truthy(ValueOf(o))
                          THEN Append(lt_embs, ValueOf(o)) ELSE lt_embs
            /\ lt_i' = lt_i + 1
            /\ UNCHANGED lt_pc
    /\ UNCHANGED <<lt_chunks, lt_ret, text, max_chars, overlap, outside_large>>

\* lines 553-567: nothing embedded gives [], otherwise the mean; the rate
\* of success below one half only prints a warning
FinishLarge ==
    /\ lt_pc = "loop"
    /\ lt_i > Len(lt_chunks)
    /\ LargeReturn(IF lt_embs = <<>> THEN EmptyList ELSE Mean(lt_embs))
    /\ UNCHANGED <<lt_chunks, lt_i, lt_got, lt_embs, text, max_chars, overlap,
                   outside_large>>

NextLarge ==
    \/ CallLarge
    \/ \E o \in Vectors \cup {EMPTY, NONE, "raise"} : EmbedSingle(o)
    \/ \E o \in Vectors \cup {EMPTY, NONE, "raise"} : EmbedChunkStep(o)
    \/ FinishLarge

SpecLarge == InitLarge /\ [][NextLarge]_vars

----------------------------------------------------------------------------
(* Claims about get_embedding_for_large_text *)

\* the chunks whose embedding succeeded
Succeeded == {j \in 1..Len(lt_got) : Truthy(lt_got[j])}

RECURSIVE SumOver(_, _)
SumOver(S, k) ==
    IF S = {} THEN 0
    ELSE LET j == CHOOSE x \in S : TRUE
         IN  lt_got[j].num[k] + SumOver(S \ {j}, k)

\* ret is the element-wise arithmetic mean of the vectors of Succeeded
IsMeanOfSucceeded(ret) ==
    /\ ret.kind = "list"
    /\ Len(ret.num) = Dim
    /\ \A k \in 1..Dim :
          ret.num[k] * Cardinality(Succeeded) = ret.den * SumOver(Succeeded, k)

\* C13: for a text of more than one chunk the call returns the element-wise
\* mean of the vectors of the chunks that succeeded; it returns a vector as
\* soon as one chunk succeeded, also when fewer than half did, and the
\* empty list only when none did.
LargeReturnsMeanOfSucceeded ==
    Len(lt_chunks) > 1 =>
        /\ Succeeded # {} => lt_pc # "raised"
        /\ lt_pc = "returned" =>
              IF Succeeded = {} THEN lt_ret = EmptyList
              ELSE IsMeanOfSucceeded(lt_ret)

\* the same for the calls in which no chunk's embedding raised
MeanWhenReturned ==
    (Len(lt_chunks) > 1 /\ lt_pc = "returned") =>
        IF Succeeded = {} THEN lt_ret = EmptyList
        ELSE IsMeanOfSucceeded(lt_ret)

\* a call that averaged fewer than half of its chunks, with two unlike
\* vectors among them
AveragedMinority ==
    /\ lt_pc = "returned"
    /\ Len(lt_chunks) > 2
    /\ 2 * Cardinality(Succeeded) < Len(lt_chunks)
    /\ Succeeded # {}

AveragedTwoUnlike ==
    /\ lt_pc = "returned"
    /\ \E i, j \in Succeeded : lt_got[i] # lt_got[j]

----------------------------------------------------------------------------
(* add_article_to_rag: mark the article saved, embed it, write the index *)

MaxHeaders == 3      \* most header matches in a content
MaxSplit == 5        \* most sections the splits without headers give
MaxAddCalls == 2     \* calls of add_article_to_rag in a run

LONG_ARTICLE == 20000    \* len(text_to_embed) above which sections are tried
MAX_WORKERS == 4         \* ThreadPoolExecutor(max_workers=min(len(sections), 4))

\* the one article of the runs (ids are uuid4 strings)
Doc == "d"

\* ids=[article_id] and ids=[f"{article_id}_section_{i}"]: the id of the
\* article, and the id with the suffix and the number of the section
doc_id(d) == [article |-> d, suffix |-> "", i |-> 0]
section_id(d, i) == [article |-> d, suffix |-> "_section_", i |-> i]

\* what a section is made of: the text before the first header, the k-th
\* header with the text under it, the k-th piece of a split without
\* headers, or the whole content under the title
Introduction == [kind |-> "Introduction", n |-> 0]
Header(k) == [kind |-> "header", n |-> k]
Part(k) == [kind |-> "part", n |-> k]
Whole == [kind |-> "whole", n |-> 0]

\* the contents a long article can have. headers[k] says whether text that
\* is not blank follows the k-th header match; intro whether such text
\* stands before the first match; size where len(content) lies about 6000
\* and 10000; alt how many sections the splits of lines 791-896 would give
Shape(z, b, h, a) ==
    [st |-> "present", saved |-> FALSE, long |-> TRUE, size |-> z,
     intro |-> b, headers |-> h, alt |-> a]

\* contents with header matches, of the usual size
HeaderShapes ==
    {Shape("gt10000", b, h, 0) :
        b \in BOOLEAN, h \in SeqsUpTo(BOOLEAN, MaxHeaders) \ {<<>>}}

\* contents without a match, or with two headers and nothing under them
FewHeaders == {<<>>, <<FALSE, FALSE>>, <<TRUE>>}
SplitShapes ==
    {Shape("gt10000", FALSE, h, a) :
        h \in {<<>>, <<FALSE, FALSE>>}, a \in {0, 1, 2, MaxSplit}}
        \cup {Shape("le10000", FALSE, <<>>, a) : a \in 1..2}

\* a long title over a content of at most 6000 characters
SmallShapes == {Shape("le6000", FALSE, h, 0) : h \in FewHeaders}

RECURSIVE HeaderSectionsFrom(_, _)
HeaderSectionsFrom(headers, k) ==
    IF k > Len(headers) THEN <<>>
    ELSE (IF headers[k] THEN <<Header(k)>> ELSE <<>>)
            \o HeaderSectionsFrom(headers, k + 1)

\* the sections of the headers alone, nothing for the text before them
split_without_intro(doc) ==
    IF doc.headers = <<>> THEN <<Whole>>
    ELSE HeaderSectionsFrom(doc.headers, 1)

\* lines 759-789: without a match the one section (title, content); with
\* matches the introduction, if any, and every header that has content
split_by_headers(doc) ==
    IF doc.headers = <<>> THEN <<Whole>>
    ELSE (IF doc.intro THEN <<Introduction>> ELSE <<>>)
            \o HeaderSectionsFrom(doc.headers, 1)

\* _extract_major_sections(title, content): at most one section from the
\* headers and a content above 6000 characters goes to the splits by
\* dividers, by length and by force
extract_major_sections(doc) ==
    IF Len(split_by_headers(doc)) <= 1 /\ doc.size # "le6000"
    THEN [k \in 1..doc.alt |-> Part(k)]
    ELSE split_by_headers(doc)

\* a split by length always leaves a section; only the forced split of a
\* content above 10000 can leave none. Attributes that are not looked at
\* are held at one value.
ShapeHolds(doc) ==
    /\ doc.headers = <<>> => ~doc.intro
    /\ (Len(split_by_headers(doc)) > 1 \/ doc.size = "le6000") => doc.alt = 0
    /\ (Len(split_by_headers(doc)) <= 1 /\ doc.size = "le10000") => doc.alt >= 1

ShortArticle ==
    [st |-> "present", saved |-> FALSE, long |-> FALSE, size |-> "le6000",
     intro |-> FALSE, headers |-> <<>>, alt |-> 0]
NoArticle == [ShortArticle EXCEPT !.st = "absent"]

Articles ==
    {doc \in HeaderShapes \cup SplitShapes \cup SmallShapes : ShapeHolds(doc)}
        \cup {ShortArticle, NoArticle}

\* the record process_section writes for section i (from 0) of article d
SectionRecord(d, i, sec) ==
    [id |-> section_id(d, i), is_section |-> TRUE, parent_id |-> d,
     section_index |-> i, of |-> sec]

\* the record of the standard path; it has no parent_id and no section_index
DocRecord(d) ==
    [id |-> doc_id(d), is_section |-> FALSE, parent_id |-> NONE,
     section_index |-> -1, of |-> Whole]

\* collection.add returning: a record whose id is in the collection
\* already is left out, the collection keeps the one it has
collection_add(index, rec) ==
    IF \E r \in index : r.id = rec.id THEN index ELSE index \cup {rec}

\* save_article in web_app.py: what the client of the API is told
save_article(success) ==
    IF ~success THEN "500 Failed to save article"
    ELSE "Article saved successfully"

InitRag ==
    /\ text = <<>>
    /\ max_chars = 1
    /\ overlap = 0
    /\ ck_pc = "input"
    /\ ck_pre = <<>>
    /\ ck_out = <<>>
    /\ now = 0
    /\ cache = EmptyCache
    /\ EmbedIdle
    /\ ConcIdle
    /\ LargeIdle
    /\ ar_db \in Articles
    /\ ar_index = {}
    /\ ar_pc = "idle"
    /\ ar_secs = <<>>
    /\ ar_work = <<>>
    /\ ar_log = NoLog
    /\ ar_ret = FALSE
    /\ ar_hist = <<>>
    /\ StoreIdle

\* the call returns success to its caller
RagReturn(success, log, row) ==
    /\ ar_pc' = "done"
    /\ ar_ret' = success
    /\ ar_hist' = Append(ar_hist,
                         [ret |-> success, response |-> save_article(success),
                          indexed |-> log.wrote # {}, retry |-> log.retry,
                          row |-> row])

\* lines 672-714: the lookup, retry_without_embedding, save_article_to_rag
\* (True, or False on sqlite3.Error; what it answers is only printed) and
\* the choice of the path. _add_very_long_article starts with the
\* extraction and gives up at once with one section or none.
CallAdd(retry, db_ok) ==
    /\ ar_pc \in {"idle", "done"}
    /\ Len(ar_hist) < MaxAddCalls
    /\ LET log == [NoLog EXCEPT !.saved = db_ok, !.long = ar_db.long,
                                !.retry = retry]
           secs == extract_major_sections(ar_db)
       IN  IF ar_db.st = "absent"
           THEN /\ RagReturn(FALSE, NoLog, ar_db)
                /\ ar_secs' = <<>>
                /\ ar_work' = <<>>
                /\ ar_log' = NoLog
                /\ UNCHANGED ar_db
           ELSE /\ ar_db' = [ar_db EXCEPT !.saved = @ \/ db_ok]
                /\ ar_log' = [log EXCEPT !.std = ~retry /\ (~ar_db.long \/ Len(secs) <= 1)]
                /\ IF retry
                   THEN /\ RagReturn(db_ok, log, [ar_db EXCEPT !.saved = @ \/ db_ok])
                        /\ ar_secs' = <<>>
                        /\ ar_work' = <<>>
                   ELSE IF ar_db.long /\ Len(secs) > 1
                   THEN /\ ar_pc' = "sections"
                        /\ ar_secs' = secs
                        /\ ar_work' = [k \in 1..Len(secs) |-> "queued"]
                        /\ UNCHANGED <<ar_ret, ar_hist>>
                   ELSE /\ ar_pc' = "standard"
                        /\ ar_secs' = IF ar_db.long THEN secs ELSE <<>>
                        /\ ar_work' = <<>>
                        /\ UNCHANGED <<ar_ret, ar_hist>>
    /\ UNCHANGED <<ar_index, outside_rag>>

Running == {k \in 1..Len(ar_work) : ar_work[k] \in {"embedding", "adding"}}

\* the pool takes the next task of the queue when one of its
\* min(len(sections), 4) threads is free
WorkerStart(k) ==
    /\ ar_pc = "sections"
    /\ k \in 1..Len(ar_work)
    /\ ar_work[k] = "queued"
    /\ \A j \in 1..(k - 1) : ar_work[j] # "queued"
    /\ Cardinality(Running) < Min(Len(ar_secs), MAX_WORKERS)
    /\ ar_work' = [ar_work EXCEPT ![k] = "embedding"]
    /\ UNCHANGED <<ar_db, ar_index, ar_pc, ar_secs, ar_log, ar_ret, ar_hist,
                   outside_rag>>

\* lines 935-941 and 963-965: get_embedding(section_text) gives a vector,
\* gives nothing, or raises
WorkerEmbed(k, o) ==
    /\ ar_pc = "sections"
    /\ k \in 1..Len(ar_work)
    /\ ar_work[k] = "embedding"
    /\ ar_work' = [ar_work EXCEPT ![k] = IF o = "vector" THEN "adding"
                                         ELSE "False"]
    /\ ar_log' = [ar_log EXCEPT !.fault = @ \/ o # "vector"]
    /\ UNCHANGED <<ar_db, ar_index, ar_pc, ar_secs, ar_ret, ar_hist, outside_rag>>

\* the section numbered by how many sections were written before it
process_section_add_by_finish(index, k) ==
    collection_add(index,
                   SectionRecord(Doc, Cardinality({j \in 1..Len(ar_work) : ar_work[j] = "True"}),
                                 ar_secs[k]))

\* the section keeps the number enumerate gave it when it was submitted
process_section_add(index, k) ==
    collection_add(index, SectionRecord(Doc, k - 1, ar_secs[k]))

\* lines 943-965: collection.add of the section returns or raises
WorkerAdd(k, o) ==
    /\ ar_pc = "sections"
    /\ k \in 1..Len(ar_work)
    /\ ar_work[k] = "adding"
    /\ IF o = "returns"
       THEN /\ ar_index' = process_section_add(ar_index, k)
            /\ ar_work' = [ar_work EXCEPT ![k] = "True"]
            /\ ar_log' = [ar_log EXCEPT !.wrote = @ \cup {section_id(Doc, k - 1)}]
       ELSE /\ ar_work' = [ar_work EXCEPT ![k] = "False"]
            /\ ar_log' = [ar_log EXCEPT !.fault = TRUE]
            /\ UNCHANGED ar_index
    /\ UNCHANGED <<ar_db, ar_pc, ar_secs, ar_ret, ar_hist, outside_rag>>

\* successful_sections after the loop over as_completed
successful_sections == Cardinality({k \in 1..Len(ar_work) : ar_work[k] = "True"})

\* success only when every section was written
all_sections_needed == successful_sections = Len(ar_work)

\* line 1021: return successful_sections > 0
very_long_success == successful_sections > 0

\* no standard path after the sections: the call ends here
CollectNoFallback ==
    /\ ar_pc = "sections"
    /\ \A k \in 1..Len(ar_work) : ar_work[k] \in {"True", "False"}
    /\ RagReturn(TRUE, ar_log, ar_db)
    /\ UNCHANGED <<ar_db, ar_index, ar_secs, ar_work, ar_log, outside_rag>>

\* lines 974-976, 1018-1021 and 711-714: every future is done; success
\* ends the call, otherwise the standard path follows
CollectSections ==
    /\ ar_pc = "sections"
    /\ \A k \in 1..Len(ar_work) : ar_work[k] \in {"True", "False"}
    /\ IF very_long_success
       THEN /\ RagReturn(TRUE, ar_log, ar_db)
            /\ UNCHANGED ar_log
       ELSE /\ ar_pc' = "standard"
            /\ ar_log' = [ar_log EXCEPT !.std = TRUE]
            /\ UNCHANGED <<ar_ret, ar_hist>>
    /\ UNCHANGED <<ar_db, ar_index, ar_secs, ar_work, outside_rag>>

\* lines 717-723 and 746-751: get_embedding(text_to_embed) of the standard
\* path; nothing or an exception ends the call with True
StandardEmbed(o) ==
    /\ ar_pc = "standard"
    /\ IF o = "vector"
       THEN ar_pc' = "standard_add" /\ UNCHANGED <<ar_ret, ar_hist, ar_log>>
       ELSE /\ ar_log' = [ar_log EXCEPT !.fault = TRUE]
            /\ RagReturn(TRUE, ar_log, ar_db)
    /\ UNCHANGED <<ar_db, ar_index, ar_secs, ar_work, outside_rag>>

\* lines 728-751: collection.add(ids=[article_id], ...) returns or raises;
\* the call returns True either way
StandardAdd(o) ==
    /\ ar_pc = "standard_add"
    /\ LET log == IF o = "returns"
                  THEN [ar_log EXCEPT !.wrote = @ \cup {doc_id(Doc)}]
                  ELSE [ar_log EXCEPT !.fault = TRUE]
           index == IF o = "returns" THEN collection_add(ar_index, DocRecord(Doc))
                    ELSE ar_index
       IN  /\ ar_index' = index
           /\ ar_log' = log
           /\ RagReturn(TRUE, log, ar_db)
    /\ UNCHANGED <<ar_db, ar_secs, ar_work, outside_rag>>

\* the longest list of sections an article of Articles has
MaxSections == Max(MaxSplit, MaxHeaders + 1)

EmbedResults == {"vector", "nothing", "raises"}
AddResults == {"returns", "raises"}

NextRag ==
    \/ \E retry, db_ok \in BOOLEAN : CallAdd(retry, db_ok)
    \/ \E k \in 1..MaxSections : WorkerStart(k)
    \/ \E k \in 1..MaxSections : \E o \in EmbedResults : WorkerEmbed(k, o)
    \/ \E k \in 1..MaxSections : \E o \in AddResults : WorkerAdd(k, o)
    \/ CollectSections
    \/ \E o \in EmbedResults : StandardEmbed(o)
    \/ \E o \in AddResults : StandardAdd(o)

SpecRag == InitRag /\ [][NextRag]_vars

----------------------------------------------------------------------------
(* Claims about add_article_to_rag *)

\* a call for a long article that was to embed it has returned, and every
\* embedding and every collection.add of the call went well
LongCallDone == ar_pc = "done" /\ ar_log.long /\ ~ar_log.retry
WorkedWell == LongCallDone /\ ~ar_log.fault

SectionIds(m) == {section_id(Doc, i) : i \in 0..(m - 1)}

\* the headers with text under them, and where such a header comes in the
\* list of sections
Kept == {k \in 1..Len(ar_db.headers) : ar_db.headers[k]}
IntroCount == IF ar_db.intro THEN 1 ELSE 0
PlaceOf(k) == IntroCount + Cardinality({j \in Kept : j < k})

\* the call wrote one record for each of the n headers, in header order
OnePerHeader ==
    LET n == Len(ar_db.headers)
    IN  /\ ar_log.wrote = SectionIds(n)
        /\ \A i \in 0..(n - 1) :
              SectionRecord(Doc, i, Header(i + 1)) \in ar_index

\* C14 as stated: a long article with n >= 2 markdown headers and a working
\* provider gets exactly n records, ids _section_0 .. _section_{n-1}, each a
\* section of the article with section_index in header order, and no
\* record for the article itself.
HeadersGiveRecordsAsStated ==
    (WorkedWell /\ Len(ar_db.headers) >= 2) => OnePerHeader

\* C14 amended: the records are those of the extracted sections, an
\* Introduction for text before the first header and then every header that
\* has text under it, numbered from 0 in that order, with no record for the
\* article itself; they are the n headers in header order exactly when
\* nothing precedes the first header and no header is bare.
SectionsGiveRecords ==
    LET m == IntroCount + Cardinality(Kept)
    IN  (WorkedWell /\ m >= 2) =>
            /\ ar_log.wrote = SectionIds(m)
            /\ ar_db.intro => SectionRecord(Doc, 0, Introduction) \in ar_index
            /\ \A k \in Kept :
                  SectionRecord(Doc, PlaceOf(k), Header(k)) \in ar_index
            /\ \A r \in ar_index :
                  r.id \in ar_log.wrote =>
                      r.is_section /\ r.parent_id = Doc /\ r.section_index = r.id.i
            /\ OnePerHeader <=> (~ar_db.intro /\ Kept = 1..Len(ar_db.headers))

\* an introduction, a bare header between two headers with text: three
\* records for three headers, none of them in the place of its header
IntroAndBareHeader ==
    /\ WorkedWell
    /\ ar_db.intro
    /\ ar_db.headers = <<TRUE, FALSE, TRUE>>
    /\ Cardinality(ar_index) = 3

\* the sections of the call whose process_section returned True
WrittenSections == {k \in 1..Len(ar_work) : ar_work[k] = "True"}
SectionsOver == ar_work # <<>> /\ ar_pc # "sections"

IndexByExtractionOrder ==
    /\ Cardinality(Running) <= MAX_WORKERS
    /\ \A r \in ar_index :
          r.is_section =>
              /\ r.section_index \in 0..(Len(extract_major_sections(ar_db)) - 1)
              /\ r = SectionRecord(Doc, r.section_index,
                                   extract_major_sections(ar_db)[r.section_index + 1])
    /\ \A r1, r2 \in ar_index :
          (r1.id = r2.id \/ (r1.is_section /\ r2.is_section
                                /\ r1.section_index = r2.section_index))
              => r1 = r2

\* more sections than threads, four of them in work, and a later section
\* written while an earlier one is still in work
LaterSectionFirst ==
    /\ ar_pc = "sections"
    /\ Len(ar_work) > MAX_WORKERS
    /\ Cardinality(Running) = MAX_WORKERS
    /\ \E j, k \in 1..Len(ar_work) :
          /\ j < k
          /\ ar_work[j] \in {"embedding", "adding"}
          /\ ar_work[k] = "True"

\* C17: a long article with fewer than 2 sections, or with no section
\* written, goes on to the standard path, which writes one record of the
\* whole article with is_section false; the call does not end in an error.
FallsBackToStandard ==
    /\ (ar_log.long /\ ~ar_log.retry /\ ar_pc # "sections") =>
          (ar_log.std <=>
              (Len(extract_major_sections(ar_db)) <= 1 \/ WrittenSections = {}))
    /\ LongCallDone =>
          /\ ar_ret
          /\ (ar_log.std /\ ~ar_log.fault) => doc_id(Doc) \in ar_log.wrote
          /\ doc_id(Doc) \in ar_log.wrote =>
                /\ ar_log.std
                /\ DocRecord(Doc) \in ar_index

\* every section failed and the standard path wrote the article's record
AllSectionsFailedThenStandard ==
    /\ LongCallDone
    /\ Len(ar_work) >= 2
    /\ WrittenSections = {}
    /\ doc_id(Doc) \in ar_log.wrote
    /\ DocRecord(Doc) \in ar_index

\* C18: whatever calls were made and however the provider failed and came
\* back, the index never holds both the record of the whole article and
\* section records with that article as parent.
OneRepresentation ==
    ~ /\ \E r \in ar_index : r.id = doc_id(Doc)
      /\ \E r \in ar_index : r.is_section /\ r.parent_id = Doc

\* the finished calls that found the article and were to embed it
EmbedCalls ==
    {n \in 1..Len(ar_hist) : ar_hist[n].row.st = "present" /\ ~ar_hist[n].retry}

\* C19: for an article of the primary store every call reports success,
\* whatever failed in the embedding and in the index; the article is still
\* there with nothing but the saved flag changed, and the saved flag is set
\* whenever success is reported.
SuccessMeansSaved ==
    \A n \in EmbedCalls :
        /\ ar_hist[n].ret
        /\ [ar_hist[n].row EXCEPT !.saved = FALSE] = [ar_db EXCEPT !.saved = FALSE]
        /\ ar_hist[n].ret => ar_hist[n].row.saved

\* the first two parts of C19 alone
SuccessWhateverFails ==
    \A n \in EmbedCalls :
        /\ ar_hist[n].ret
        /\ [ar_hist[n].row EXCEPT !.saved = FALSE] = [ar_db EXCEPT !.saved = FALSE]

\* C20: the caller can tell a call that saved and indexed the article from
\* one that saved it and could not index it: what it is given differs.
FailureIsSignalled ==
    \A m, n \in {c \in EmbedCalls : ar_hist[c].row.saved} :
        ar_hist[m].indexed # ar_hist[n].indexed =>
            /\ ar_hist[m].ret # ar_hist[n].ret
            /\ ar_hist[m].response # ar_hist[n].response


----------------------------------------------------------------------------
(* Query, clean-up and deletion: query_similar_articles,                    *)
(* clean_vector_database and the dbdelete_ callback over the articles       *)
(* table and the Chroma collection.                                         *)

MaxOps == 2        \* operations in a run
MaxK == 2          \* largest n_results of a query
MaxDistance == 2   \* distances are 1..MaxDistance

StoreDocs == {"d", "e"}

\* the orders the elements of S can stand in
Orderings(S) ==
    {q \in [1..Cardinality(S) -> S] :
        \A i, j \in 1..Cardinality(S) : i # j => q[i] # q[j]}

\* what add_article_to_rag can have left in the collection for article d:
\* nothing, the record of the standard path, the records of two sections,
\* or both after two calls
IndexShapes(d) ==
    LET sections == {SectionRecord(d, 0, Header(1)), SectionRecord(d, 1, Header(2))}
    IN  {{}, {DocRecord(d)}, sections, sections \cup {DocRecord(d)}}

\* the article a record belongs to
RecordDoc(r) == r.id.article

InStore(db, d) == \E i \in 1..Len(db) : db[i] = d

\* similarity_score of a result entry: a distance, or None
Score(d) == [some |-> TRUE, distance |-> d]
NoScore == [some |-> FALSE, distance |-> 0]

\* a result entry; the keys an entry does not have read as False and empty
Entry(id, score, fallback, sections) ==
    [id |-> id, similarity_score |-> score, is_fallback |-> fallback,
     matching_sections |-> sections]

\* Database.get_recent_articles: ORDER BY published_at DESC LIMIT ?
get_recent_articles(db, limit) == SubSeq(db, 1, Min(limit, Len(db)))

\* _get_recent_articles_formatted: the return stands inside the loop, so
\* the list is returned after the first article; without an article the
\* loop body is never entered and the function ends without a return
recent_articles_formatted(db, limit) ==
    LET recent_articles == get_recent_articles(db, limit)
    IN  IF recent_articles = <<>> THEN Returned("none", <<>>, FALSE, 0)
        ELSE Returned("list",
                      <<Entry(recent_articles[1], NoScore, TRUE, <<>>)>>,
                      FALSE, 0)

\* collection.query(n_results = n): the n nearest records, or all of them
\* when there are fewer, nearest first, each with its distance
collection_query(index, n) ==
    LET m == Min(n, Cardinality(index))
    IN  {[i \in 1..m |-> [rec |-> recs[i], distance |-> dist[i]]] :
            recs \in {q \in [1..m -> index] :
                        \A i, j \in 1..m : i # j => q[i] # q[j]},
            dist \in {q \in [1..m -> 1..MaxDistance] :
                        \A i \in 1..m : i < m => q[i] <= q[i + 1]}}

\* the loop of _process_query_results over the raw hits; grouped is the
\* dict grouped_results in the order its keys were inserted
RECURSIVE group_hits(_, _, _)
group_hits(hits, db, grouped) ==
    IF hits = <<>> THEN grouped
    ELSE
        LET h == Head(hits)
            key == IF h.rec.is_section THEN h.rec.parent_id ELSE RecordDoc(h.rec)
            at == {i \in 1..Len(grouped) : grouped[i].id = key}
            fresh == [id |-> key, best_distance |-> h.distance,
                      matching_sections |->
                          IF h.rec.is_section THEN <<h.distance>> ELSE <<>>]
            next ==
                IF at # {}
                THEN IF h.rec.is_section
                     THEN [i \in 1..Len(grouped) |->
                              IF i \in at
                              THEN [grouped[i] EXCEPT
                                      !.best_distance =
                                          IF h.distance < @ THEN h.distance ELSE @,
                                      !.matching_sections = Append(@, h.distance)]
                              ELSE grouped[i]]
                     ELSE grouped
                ELSE IF h.rec.is_section /\ ~InStore(db, key) THEN grouped
                ELSE Append(grouped, fresh)
        IN  group_hits(Tail(hits), db, next)

\* list.sort(key = best_distance): ascending, equal keys keep their order
RECURSIVE sort_by_distance(_)
sort_by_distance(q) ==
    IF q = <<>> THEN <<>>
    ELSE LET least == CHOOSE i \in 1..Len(q) :
                         /\ \A j \in 1..Len(q) : q[i].best_distance <= q[j].best_distance
                         /\ \A j \in 1..(i - 1) : q[j].best_distance > q[i].best_distance
         IN  <<q[least]>>
                \o sort_by_distance([j \in 1..(Len(q) - 1) |->
                                        IF j < least THEN q[j] ELSE q[j + 1]])

\* every entry, however many
all_results(q, n) == q

\* results_list[:n_results]
first_n(q, n) == SubSeq(q, 1, Min(n, Len(q)))

\* _process_query_results(results, n_results); the distances of the
\* matching sections come in ascending order already, three are kept
process_query_results(hits, n_results, db) ==
    LET results_list == sort_by_distance(group_hits(hits, db, <<>>))
        shown == first_n(results_list, n_results)
    IN  [i \in 1..Len(shown) |->
            Entry(shown[i].id, Score(shown[i].best_distance), FALSE,
                  first_n(shown[i].matching_sections, 3))]

\* query_similar_articles(query_text, n_results). embed is what
\* get_embedding gave for the query text: a vector, None after the provider
\* failed on every attempt, or an exception; hits is what collection.query
\* returned, <<>> standing for an exception out of it
query_similar_articles(index, db, n_results, embed, hits) ==
    IF index = {} THEN Returned("list", <<>>, FALSE, 0)
    ELSE IF embed = "raises" THEN Returned("raised", <<>>, FALSE, 0)
    ELSE IF embed = "none" THEN recent_articles_formatted(db, n_results)
    ELSE IF hits = <<>> THEN recent_articles_formatted(db, n_results)
    ELSE Returned("list", process_query_results(hits, n_results, db), FALSE, 0)

EmbedOutcomes == {"vector", "none", "raises"}

\* A query leaves both stores as they are: a run has no two queries in a row.
QuerySimilar(n_results, embed) ==
    /\ st_n < MaxOps
    /\ st_last.op \notin {"delete_embedding", "query"}
    /\ \E hits \in (IF embed = "vector"
                    THEN {<<>>} \cup collection_query(st_index, 2 * n_results)
                    ELSE {<<>>}) :
          st_last' = [op |-> "query", arg |-> "", k |-> n_results,
                      embed |-> embed, hits |-> hits, store |-> st_db,
                      before |-> st_index,
                      ret |-> query_similar_articles(st_index, st_db, n_results,
                                                     embed, hits)]
    /\ st_n' = st_n + 1
    /\ UNCHANGED <<st_db, st_index, outside_store>>

\* the ids clean_vector_database deletes: those that SELECT id FROM articles
\* WHERE id IN (...) does not give back. The id of a section record is
\* {article id}_section_{i}, which is the id of no article
ids_to_delete(index, db) ==
    {r.id : r \in {x \in index : ~(x.id.suffix = "" /\ InStore(db, x.id.article))}}

\* clean_vector_database returning its report; the cache directory is
\* empty here, so the sweep of the cache that follows removes nothing
CleanVectorDatabase ==
    /\ st_n < MaxOps
    /\ st_last.op # "delete_embedding"
    /\ st_index' = {r \in st_index : r.id \notin ids_to_delete(st_index, st_db)}
    /\ st_last' = [op |-> "clean", arg |-> "", k |-> 0, embed |-> "none",
                   hits |-> <<>>, store |-> st_db, before |-> st_index,
                   ret |-> Returned("report", <<>>, FALSE,
                                    Cardinality(ids_to_delete(st_index, st_db)))]
    /\ st_n' = st_n + 1
    /\ UNCHANGED <<st_db, outside_store>>

\* clean_vector_database when the collection or the table raises before
\* anything is deleted: {"error": ...}
CleanFails ==
    /\ st_n < MaxOps
    /\ st_last.op # "delete_embedding"
    /\ st_last' = [op |-> "clean", arg |-> "", k |-> 0, embed |-> "none",
                   hits |-> <<>>, store |-> st_db, before |-> st_index,
                   ret |-> Returned("error", <<>>, FALSE, 0)]
    /\ st_n' = st_n + 1
    /\ UNCHANGED <<st_db, st_index, outside_store>>

\* delete_article_embedding(article_id): the index afterwards and the
\* value returned. Only the record whose id is the article id is looked
\* for and deleted
delete_article_embedding(index, d) ==
    IF ~\E r \in index : r.id = doc_id(d)
    THEN [index |-> index, ret |-> FALSE]
    ELSE [index |-> {r \in index : r.id # doc_id(d)}, ret |-> TRUE]

\* Database.delete_article(article_id): the table afterwards and the value
\* returned
delete_article(db, d) ==
    IF ~InStore(db, d) THEN [db |-> db, ret |-> FALSE]
    ELSE [db |-> SelectSeq(db, LAMBDA x : x # d), ret |-> TRUE]

\* the dbdelete_ callback up to the return of delete_article_embedding
DbDeleteEmbedding(d) ==
    /\ st_n < MaxOps
    /\ st_last.op # "delete_embedding"
    /\ st_index' = delete_article_embedding(st_index, d).index
    /\ st_last' = [op |-> "delete_embedding", arg |-> d, k |-> 0,
                   embed |-> "none", hits |-> <<>>, store |-> st_db,
                   before |-> st_index,
                   ret |-> Returned("bool", <<>>,
                                    delete_article_embedding(st_index, d).ret, 0)]
    /\ st_n' = st_n + 1
    /\ UNCHANGED <<st_db, outside_store>>

\* the rest of the callback: delete_article, whatever the first call returned
DbDeleteArticle ==
    /\ st_last.op = "delete_embedding"
    /\ st_db' = delete_article(st_db, st_last.arg).db
    /\ st_last' = [st_last EXCEPT
                      !.op = "dbdelete",
                      !.ret = Returned("bool", <<>>,
                                       delete_article(st_db, st_last.arg).ret, 0)]
    /\ UNCHANGED <<st_index, st_n, outside_store>>

InitStore ==
    /\ text = <<>>
    /\ max_chars = 1
    /\ overlap = 0
    /\ ck_pc = "input"
    /\ ck_pre = <<>>
    /\ ck_out = <<>>
    /\ now = 0
    /\ cache = EmptyCache
    /\ EmbedIdle
    /\ ConcIdle
    /\ LargeIdle
    /\ RagIdle
    /\ st_db \in UNION {Orderings(S) : S \in SUBSET StoreDocs}
    /\ \E shape \in [StoreDocs -> UNION {IndexShapes(d) : d \in StoreDocs}] :
          /\ \A d \in StoreDocs :
                /\ shape[d] \in IndexShapes(d)
                /\ ~InStore(st_db, d) => shape[d] = {}
          /\ st_index = UNION {shape[d] : d \in StoreDocs}
    /\ st_last = NoOperation
    /\ st_n = 0

NextStore ==
    \/ \E n_results \in 1..MaxK, embed \in EmbedOutcomes :
          QuerySimilar(n_results, embed)
    \/ CleanVectorDatabase
    \/ CleanFails
    \/ \E d \in StoreDocs : DbDeleteEmbedding(d)
    \/ DbDeleteArticle

SpecStore == InitStore /\ [][NextStore]_vars


----------------------------------------------------------------------------
(* Claims about the query *)

\* the result entry of the fallback for article d
FallbackEntry(d) == Entry(d, NoScore, TRUE, <<>>)

\* the last operation was a query for which the provider failed on every
\* attempt while the collection held records
QueryWithoutEmbedding ==
    st_last.op = "query" /\ st_last.embed = "none" /\ st_last.before # {}

\* C21: when the provider fails on every attempt for a query and the index
\* is not empty, the query returns a list, never None or an exception: the
\* min(N, number of stored articles) most recent articles in recency order,
\* each flagged as fallback and without a similarity score.
FallbackReturnsRecent ==
    QueryWithoutEmbedding =>
        /\ st_last.ret.kind = "list"
        /\ st_last.ret.items =
              [i \in 1..Min(st_last.k, Len(st_last.store)) |->
                  FallbackEntry(st_last.store[i])]

\* what the fallback does give: the most recent article alone, None when
\* the table is empty
FallbackReturnsFirstOnly ==
    QueryWithoutEmbedding =>
        IF st_last.store = <<>> THEN st_last.ret.kind = "none"
        ELSE /\ st_last.ret.kind = "list"
             /\ st_last.ret.items = <<FallbackEntry(st_last.store[1])>>

\* C22: a query on an empty index, the primary store holding articles,
\* falls back to the most recent N articles flagged as fallback; it gives
\* neither an empty result nor an error.
EmptyIndexFallsBack ==
    (st_last.op = "query" /\ st_last.before = {} /\ st_last.store # <<>>) =>
        /\ st_last.ret.kind = "list"
        /\ st_last.ret.items # <<>>
        /\ \A i \in 1..Len(st_last.ret.items) : st_last.ret.items[i].is_fallback

\* the last operation was a query that went through _process_query_results
Processed ==
    /\ st_last.op = "query"
    /\ st_last.embed = "vector"
    /\ st_last.before # {}
    /\ st_last.hits # <<>>

\* the article a raw hit stands for: its parent_id or its own id
HitDoc(h) == IF h.rec.is_section THEN h.rec.parent_id ELSE RecordDoc(h.rec)

\* the raw hits that are section hits
SectionHits(hits) == {i \in 1..Len(hits) : hits[i].rec.is_section}

\* the raw hits the loop skips: section hits whose parent is not in the
\* primary store and has no entry from an earlier hit
Skipped(hits, db) ==
    {i \in SectionHits(hits) :
        /\ ~InStore(db, hits[i].rec.parent_id)
        /\ \A j \in 1..(i - 1) : ~hits[j].rec.is_section => HitDoc(hits[j]) # HitDoc(hits[i])}

\* the result folds the raw hits in from: at most k entries, no two of one
\* article, each with the least distance among those hits of its article
\* and with the section hits of its article, in ascending order of distance
Consolidated(items, hits, from, k) ==
    /\ Len(items) <= k
    /\ \A i, j \in 1..Len(items) : i # j => items[i].id # items[j].id
    /\ \A i \in 1..Len(items) :
          LET mine == {n \in from : HitDoc(hits[n]) = items[i].id}
          IN  /\ mine # {}
              /\ items[i].similarity_score.some
              /\ \A n \in mine : items[i].similarity_score.distance <= hits[n].distance
              /\ \E n \in mine : items[i].similarity_score.distance = hits[n].distance
              /\ Len(items[i].matching_sections) =
                    Min(3, Cardinality(mine \cap SectionHits(hits)))
    /\ \A i \in 1..(Len(items) - 1) :
          items[i].similarity_score.distance <= items[i + 1].similarity_score.distance

\* C23: the result of _process_query_results has at most k entries, no two
\* of one article, every section hit folded into the entry of its parent,
\* each entry with the least distance among all raw hits of its article,
\* in ascending order of distance; section hits of 2 parents give exactly
\* 2 entries.
ConsolidatesAsStated ==
    Processed =>
        LET hits == st_last.hits
            items == st_last.ret.items
        IN  /\ Consolidated(items, hits, 1..Len(hits), st_last.k)
            /\ (/\ SectionHits(hits) = 1..Len(hits)
                /\ Cardinality({HitDoc(hits[n]) : n \in 1..Len(hits)}) = 2)
                  => Len(items) = 2

\* C23 as the code has it: the section hits of a parent that is not in the
\* primary store are skipped, and the entries are the first k of the
\* articles of the other hits.
ConsolidatesKeptHits ==
    Processed =>
        LET hits == st_last.hits
            items == st_last.ret.items
            kept == (1..Len(hits)) \ Skipped(hits, st_last.store)
        IN  /\ st_last.ret.kind = "list"
            /\ Consolidated(items, hits, kept, st_last.k)
            /\ Len(items) =
                  Min(st_last.k, Cardinality({HitDoc(hits[n]) : n \in kept}))

\* section hits alone, of two parents of the primary store, one of them
\* with two sections at different distances, folded into two entries
TwoParentsFolded ==
    /\ Processed
    /\ SectionHits(st_last.hits) = 1..Len(st_last.hits)
    /\ Skipped(st_last.hits, st_last.store) = {}
    /\ Len(st_last.ret.items) = 2
    /\ \E i \in 1..2 :
          /\ Len(st_last.ret.items[i].matching_sections) = 2
          /\ \E m, n \in 1..Len(st_last.hits) :
                /\ HitDoc(st_last.hits[m]) = st_last.ret.items[i].id
                /\ HitDoc(st_last.hits[n]) = st_last.ret.items[i].id
                /\ st_last.hits[m].distance # st_last.hits[n].distance

----------------------------------------------------------------------------
(* Claims about clean-up and deletion *)

\* C25: after clean_vector_database returned its report the index holds
\* exactly the records whose article is in the primary store, and
\* deleted_vectors is the number of records removed.
CleanKeepsLiveRecords ==
    (st_last.op = "clean" /\ st_last.ret.kind = "report") =>
        /\ st_index = {r \in st_last.before : InStore(st_db, RecordDoc(r))}
        /\ st_last.ret.deleted = Cardinality(st_last.before \ st_index)

\* what the clean-up does keep: the document-level records of the
\* articles of the primary store, and no section record
CleanKeepsDocRecordsOnly ==
    (st_last.op = "clean" /\ st_last.ret.kind = "report") =>
        /\ st_index = {r \in st_last.before :
                          ~r.is_section /\ InStore(st_db, RecordDoc(r))}
        /\ st_last.ret.deleted = Cardinality(st_last.before \ st_index)

\* C29: after delete_article_embedding(article_id) returned, and after the
\* article was deleted as well, the index holds no record of that article,
\* neither its document-level record nor a section record.
NoRecordAfterDelete ==
    st_last.op \in {"delete_embedding", "dbdelete"} =>
        \A r \in st_index : RecordDoc(r) # st_last.arg

=============================================================================
